---- MODULE Spec2Model ----
(***************************************************************************)
(* Model of the class-joiner control loop of src/yugha/autoscript.py:     *)
(* main(), fetch_meetings(), connect2class(), safe_click_element(),       *)
(* update_app_status(), cleanup_driver() and signal_handler().            *)
(*                                                                         *)
(* Time is counted in whole seconds.  A time.sleep(n) of main() advances   *)
(* the clock by n and every other statement of main() takes no time; the  *)
(* waits inside connect2class and cleanup_driver are not on this clock.   *)
(* The clock restarts at every call of fetch_meetings.                    *)
(*                                                                         *)
(* main()'s locals mid, title and meeting_info are forgotten where the    *)
(* last statement that reads them has run, and all locals when main() is  *)
(* left; the code overwrites them before it reads them again.             *)
(***************************************************************************)
EXTENDS Integers, Sequences, FiniteSets, TLC

(***************************************************************************)
(* Bounds of the model.                                                    *)
(***************************************************************************)
\* longest feed list of a poll of the control loop
MaxPollFeed == 1
\* longest feed list given to fetch_meetings on its own (SpecFeed)
MaxFeed == 3
\* longest feed list of a reply given to fetch_meetings on its own (SpecReply)
MaxReplyFeed == 2
\* number of browser instances that can be started in one run
MaxLaunch == 2
\* cap of the SSL-error counter (the code lets it grow without limit)
MaxSslCount == 4

(***************************************************************************)
(* Program constants.                                                      *)
(***************************************************************************)
max_retries == 3
max_consecutive_errors == 5
max_ssl_errors == 3
connection_time == 300
hold_tick == 30
launch_pause == 10
ssl_pause == 30
relogin_fail_pause == 60
resolve_fail_pause == 30
restart_pause == 30
page_wait == 10
click_timeout == 60
click_settle == 1
click_pause == 5
backoff_unit == 30
backoff_cap == 300

(***************************************************************************)
(* Python values.  None is the string "None"; an empty dict and a None in *)
(* a place that otherwise holds a dict are both the empty function; both  *)
(* are falsy, which is all the code asks of them.                         *)
(***************************************************************************)
NoneVal == "None"
EmptyDict == <<>>
Truthy(v) == v # NoneVal /\ v # ""
TruthyDict(d) == d # EmptyDict

\* a feed "_id" that is not a JSON string (a number)
IntId == "int:7"
MeetingIds == {"m1", "m2"}
IsStr(v) == v # IntId /\ v # NoneVal

Min(a, b) == IF a < b THEN a ELSE b

Range(s) == {s[i] : i \in 1..Len(s)}

RECURSIVE SeqsUpTo(_, _)
SeqsUpTo(S, n) ==
    IF n = 0 THEN {<<>>}
    ELSE LET shorter == SeqsUpTo(S, n - 1)
         IN  shorter \cup {Append(s, e) : s \in {t \in shorter : Len(t) = n - 1}, e \in S}

(***************************************************************************)
(* The LMS feed: a list of meeting objects, of which the code reads _id,  *)
(* title and status (instructor, startTime and endTime are only copied    *)
(* into the descriptor).                                                   *)
(***************************************************************************)
FeedStatuses == {"started", "ended", "scheduled"}
FeedEntries == [id : MeetingIds \cup {NoneVal}, title : {"Maths", NoneVal}, status : FeedStatuses]
PollEntries == [id : MeetingIds \cup {IntId}, title : {"Maths", NoneVal}, status : {"started", "ended"}]

(***************************************************************************)
(* What session.post gives fetch_meetings: an HTTP response (status code, *)
(* kind of body, the "ref" list of a JSON object body) or an exception.   *)
(***************************************************************************)
HttpResponse(code, body, ref) == [kind |-> "http", code |-> code, body |-> body, ref |-> ref, text |-> ""]
Raised(kind, text) == [kind |-> kind, code |-> 0, body |-> "", ref |-> <<>>, text |-> text]

ResponsesWith(feeds) ==
    {HttpResponse(200, "json", f) : f \in feeds}
    \cup {HttpResponse(200, b, <<>>) : b \in {"empty", "nonjson", "badjson", "jsonlist"}}
    \cup {HttpResponse(c, "empty", <<>>) : c \in {401, 403, 404}}
    \cup {Raised("SSLError", "certificate verify failed"),
          Raised("Exception", "SSL handshake"),
          Raised("Exception", "connection refused")}

PollResponses == ResponsesWith(SeqsUpTo(PollEntries, MaxPollFeed))

\* a handler that knows the SSLError type only
MentionsSslNever(text) == FALSE

\* "SSL" in str(e) or "certificate" in str(e).lower()
MentionsSsl(text) == text \in {"certificate verify failed", "SSL handshake"}

\* the descriptor fetch_meetings builds for a started meeting
Descriptor(meeting) == [id |-> meeting.id, title |-> meeting.title, status |-> "found"]

NoneFound == <<NoneVal, NoneVal, EmptyDict>>
TokenExpired == <<"TOKEN_EXPIRED", NoneVal>>
SslError == <<"SSL_ERROR", NoneVal>>

\* a scan that keeps the last started entry instead of returning at the first
ScanLastStarted(meetings, i) ==
    LET started == {k \in i..Len(meetings) : meetings[k].status = "started"}
    IN  IF started = {} THEN NoneFound
        ELSE LET k == CHOOSE k \in started : \A j \in started : j <= k
             IN  <<meetings[k].id, meetings[k].title, Descriptor(meetings[k])>>

\* for meeting in meetings: if meeting.get("status") == "started": return ...
RECURSIVE ScanMeetings(_, _)
ScanMeetings(meetings, i) ==
    IF i > Len(meetings) THEN NoneFound
    ELSE IF meetings[i].status = "started"
         THEN <<meetings[i].id, meetings[i].title, Descriptor(meetings[i])>>
         ELSE ScanMeetings(meetings, i + 1)

fetch_meetings(r) ==
    IF r.kind = "http"
    THEN IF r.code = 200
         THEN CASE r.body = "empty" -> TokenExpired
                [] r.body = "nonjson" -> TokenExpired
                [] r.body = "badjson" -> TokenExpired
                [] r.body = "jsonlist" -> NoneFound
                [] OTHER -> ScanMeetings(r.ref, 1)
         ELSE IF r.code = 401 \/ r.code = 403 THEN TokenExpired ELSE NoneFound
    ELSE IF r.kind = "SSLError" THEN SslError
         ELSE IF MentionsSsl(r.text) THEN SslError ELSE NoneFound

(***************************************************************************)
(* login(): the outcomes of the POST and the status each one publishes.   *)
(***************************************************************************)
LoginOutcomes == {"ok", "no_cookie", "bad_status", "exception"}
login(outcome) == IF outcome = "ok" THEN "cookie" ELSE ""
LoginStatus(outcome) ==
    CASE outcome = "ok" -> "Logged in - Waiting for meetings"
      [] outcome = "no_cookie" -> "Login failed - No session cookie"
      [] outcome = "bad_status" -> "Login failed - Status 500"
      [] OTHER -> "Login error: connection refused"

(***************************************************************************)
(* safe_click_element(): what one step of the click sequence can do and   *)
(* what the function returns for it.  "clicked" is a click by             *)
(* element.click() or by the JavaScript fallback; "timeout" is the        *)
(* TimeoutException of the wait; "webdriver_error" is a                   *)
(* WebDriverException of the scroll, or of the click and its fallback;    *)
(* "raised" is an exception of any other type, which the function does    *)
(* not catch.                                                              *)
(***************************************************************************)
StepOutcomes == {"clicked", "timeout", "webdriver_error", "raised"}
safe_click_element(outcome) ==
    CASE outcome = "clicked" -> "True"
      [] outcome \in {"timeout", "webdriver_error"} -> "False"
      [] OTHER -> "raise"
click_sequence == <<"permission dialog button 1", "permission dialog button 2",
                    "main interface button", "final connect button">>

\* a loop that gives up at the first step that did not click
LeavesOnFailedClick(returned) == returned # "True"

\* the for loop of connect2class is left early only by an exception
LeavesSequence(returned) == returned = "raise"

\* update_app_status: the record json.dump writes
StatusRecord(status, info) == [status |-> status, timestamp |-> "now", meeting_info |-> info]

SslStatus(n) ==
    CASE n = 1 -> "SSL error (1/3)"
      [] n = 2 -> "SSL error (2/3)"
      [] n = 3 -> "SSL error (3/3)"
      [] OTHER -> "SSL error (n/3)"

NoResponse == Raised("none", "")

VARIABLES
    pc,                      \* where main() is
    running,                 \* global running
    config,                  \* what /app/config.json holds when the module is loaded
    refresh_time,            \* config["refresh_time"]
    network_used,            \* history: a request to the server was attempted
    main_shot,               \* history: the take_screenshot call of main()'s last step
    json_token,              \* global json_token
    active_sessions,         \* global active_sessions (a list)
    driver,                  \* global driver: 0 is None, n > 0 the n-th browser started
    live,                    \* the browser instances that are running
    launched,                \* how many browser instances were started
    attempt,                 \* main: attempt of the start-up launch loop
    consecutive_errors,      \* main: consecutive_errors
    ssl_error_count,         \* main: ssl_error_count
    response,                \* the reply of the poll being handled, its ref list left out
    mid, title, meeting_info,   \* main: mid, title, meeting_info
    current_meeting_active,  \* global current_meeting_active
    current_meeting_info,    \* global current_meeting_info
    app_status,              \* global app_status
    status_file,             \* content of app_status.json, <<>> before the first write
    clock,                   \* seconds since the last fetch_meetings call
    start_time,              \* main: start_time of the hold, on that clock
    step_results,            \* connect2class: outcomes of the click steps tried so far
    join_result,             \* what connect2class returned
    exc,                     \* the exception on its way to main's handler
    status_trace,            \* history: values taken by the status of the descriptor
    ssl_streak,              \* history: SSL_ERROR results of fetch_meetings in a row
    err_streak,              \* history: loop iterations in a row that ended in the handler
    probe_feed, probe_out,   \* SpecFeed: a feed list and what fetch_meetings returned
    mon_pc,                  \* a monitor thread: "idle", or "shoot" inside take_screenshot
    mon_handle,              \* the driver object the monitor gave to take_screenshot
    mon_shot,                \* what take_screenshot returned to the monitor, "" before
    screenshot_thread,       \* screenshot_monitor: its position, the driver it read, its last check
    meeting_screenshot_thread,  \* meeting_screenshot_monitor: position, second of the wait
    cleanup_thread,          \* periodic_cleanup: its position, ten-second check, 12-hour tick
    files,                   \* the request files, log files and screenshot files on disk
    shutdown_trace,          \* history: status writes and driver.quit() calls of the shutdown
    sleep_left,              \* SpecTimed: seconds left of the sleep or wait main() is in
    log_file,                \* SpecLog: class_joiner.log, its characters and the lines written so far
    log_monitor              \* SpecLog: the dashboard's LogMonitor and what its client has received

vars == <<pc, running, config, refresh_time, network_used, json_token, active_sessions, driver, live, launched,
          attempt, consecutive_errors, ssl_error_count, response, mid, title, meeting_info,
          current_meeting_active, current_meeting_info, app_status, status_file, clock,
          start_time, step_results, join_result, exc, status_trace, ssl_streak, err_streak,
          probe_feed, probe_out, mon_pc, mon_handle, mon_shot, main_shot,
          screenshot_thread, meeting_screenshot_thread, cleanup_thread, files,
          shutdown_trace, sleep_left, log_file, log_monitor>>

log_vars == <<log_file, log_monitor>>

\* the take_screenshot call of the step main() just made: its description and
\* what it returned
NoShot == <<>>
Shot(description, result) == <<description, result>>

config_vars == <<config, refresh_time, network_used>>
probe_vars == <<probe_feed, probe_out>>
monitor_vars == <<mon_pc, mon_handle, mon_shot>>
thread_vars == <<screenshot_thread, meeting_screenshot_thread, cleanup_thread, files>>
driver_vars == <<driver, live, launched>>
counter_vars == <<consecutive_errors, ssl_error_count>>
poll_vars == <<response, mid, title, meeting_info>>
status_vars == <<current_meeting_info, app_status, status_file>>
join_vars == <<step_results, join_result>>
streak_vars == <<ssl_streak, err_streak>>

\* config["refresh_time"]: a JSON number, a JSON string, or no such key
JsonValue(type, val) == [type |-> type, val |-> val]

RefreshTimes == {JsonValue("int", 30), JsonValue("str", 30)}

\* /app/config.json: absent, not JSON, one required key absent, refresh_time a string
ConfigInputs ==
    {"valid", "no_file", "bad_json", "no_university_name_codetantra", "no_username",
     "no_password", "no_myclass_url", "no_refresh_time", "str_refresh_time"}

\* the value main() and the loop read as config["refresh_time"]
RefreshOf(c) ==
    CASE c = "str_refresh_time" -> JsonValue("str", 30)
      [] c \in {"no_file", "bad_json", "no_refresh_time"} -> JsonValue("absent", 0)
      [] OTHER -> JsonValue("int", 30)

(***************************************************************************)
(* The three daemon threads and the files they work on.                    *)
(***************************************************************************)
\* meeting_screenshot_monitor: seconds of one wait; periodic_cleanup: checks of
\* one wait and seconds between two checks; cleanup_old_screenshots: the age limit
wait_time == 900
idle_sleep == 10
cleanup_checks == 4320
cleanup_sleep == 10
max_file_age == 43200

\* the 12-hour waits of periodic_cleanup that are followed
MaxTicks == 2

\* check_for_screenshot_request: the files it looks for, in the order of its loop
screenshot_request_files == <<"/app/logs_yugha/take_screenshot", "/app/logs/take_screenshot">>

\* the *.log file the logging handler writes
LogFiles == {"/app/logs_yugha/class_joiner.log"}

\* creation times of screenshot files, in seconds on the clock of periodic_cleanup:
\* two files of an earlier run, and the moments at which a new file is saved
OldShots == {0 - 50000, 0 - 10}
CreationTimes == {10, 43200}

\* the disk when the process starts: no request, a log with content, old screenshots
FilesStart == [requests |-> {}, logs |-> LogFiles, shots |-> OldShots]

\* the threads before their first step
WatcherStart == [pc |-> "check", handle |-> 0, out |-> NoShot]
TimerStart == [pc |-> "idle", i |-> 0, handle |-> 0, out |-> NoShot]
CleanupStart == [pc |-> "startup", i |-> 0, ticks |-> 0]

\* the log of a process that has written nothing yet, and a dashboard that has
\* read nothing: "self.last_position = 0"
LogStart ==
    /\ log_file = [content |-> <<>>, written |-> 0]
    /\ log_monitor = [pc |-> "idle", last_position |-> 0, new_logs |-> <<>>,
                      received |-> <<>>]

ThreadsStart ==
    /\ screenshot_thread = WatcherStart
    /\ meeting_screenshot_thread = TimerStart
    /\ cleanup_thread = CleanupStart
    /\ files = FilesStart


Init ==
    /\ pc = "load_config"
    /\ running = TRUE
    /\ config \in ConfigInputs
    /\ refresh_time = RefreshOf(config)
    /\ network_used = FALSE
    /\ json_token = ""
    /\ active_sessions = <<>>
    /\ driver = 0
    /\ live = {}
    /\ launched = 0
    /\ attempt = 0
    /\ consecutive_errors = 0
    /\ ssl_error_count = 0
    /\ response = NoResponse
    /\ mid = NoneVal
    /\ title = NoneVal
    /\ meeting_info = EmptyDict
    /\ current_meeting_active = FALSE
    /\ current_meeting_info = EmptyDict
    /\ app_status = "Starting"
    /\ status_file = <<>>
    /\ clock = 0
    /\ start_time = 0
    /\ step_results = <<>>
    /\ join_result = FALSE
    /\ exc = ""
    /\ status_trace = <<>>
    /\ ssl_streak = 0
    /\ err_streak = 0
    /\ probe_feed = <<>>
    /\ probe_out = <<>>
    /\ main_shot = NoShot
    /\ mon_pc = "idle"
    /\ mon_handle = 0
    /\ mon_shot = ""
    /\ ThreadsStart
    /\ shutdown_trace = <<>>
    /\ sleep_left = 0
    /\ LogStart

(***************************************************************************)
(* Helpers shared by the actions.                                          *)
(***************************************************************************)
\* open(..., 'w') and json.dump: the record is written, open raised, or the dump
\* raised after open had emptied the file
WriteOutcomes == {"written", "open_failed", "dump_failed"}
PartialFile == [truncated |-> TRUE]

\* a write that adds the record to what the file holds
AppendStatusFile(old, record, outcome) == <<old, record>>

\* with open('/app/logs_yugha/app_status.json', 'w') as f: json.dump(status_data, f)
WriteStatusFile(old, record, outcome) ==
    CASE outcome = "written" -> record
      [] outcome = "open_failed" -> old
      [] OTHER -> PartialFile

\* update_app_status(status, meeting_info) called when current_meeting_info is cur
update_app_status(status, info, cur) ==
    LET kept == IF TruthyDict(info) THEN info ELSE cur
    IN  /\ app_status' = status
        /\ current_meeting_info' = kept
        /\ status_file' = WriteStatusFile(status_file, StatusRecord(status, kept), "written")

\* d["status"] = value
WithStatus(d, value) == [d EXCEPT !.status = value]
\* d["connection_remaining"] = n
WithRemaining(d, n) ==
    [id |-> d.id, title |-> d.title, status |-> d.status, connection_remaining |-> n]

\* the history of the descriptor's status after it is given the value v
Traced(trace, v) ==
    IF trace # <<>> /\ trace[Len(trace)] = v THEN trace ELSE Append(trace, v)

\* setup_headless_driver(): a handle, None, or None with the browser left running
\* (webdriver.Chrome succeeded and the execute_script after it raised)
LaunchOutcomes == {"ok", "failed", "leaked"}
setup_headless_driver(outcome) ==
    /\ outcome # "failed" => launched < MaxLaunch
    /\ driver' = IF outcome = "ok" THEN launched + 1 ELSE 0
    /\ live' = IF outcome = "failed" THEN live ELSE live \cup {launched + 1}
    /\ launched' = IF outcome = "failed" THEN launched ELSE launched + 1

\* driver.quit() inside try/except: the browser is closed, or quit raised
QuitOutcomes == {"closed", "error"}
AfterQuit(outcome) == IF driver # 0 /\ outcome = "closed" THEN live \ {driver} ELSE live

\* a take_screenshot without the try around its body
ScreenshotUnguarded(handle, alive, writable) ==
    IF handle = 0 THEN "None"
    ELSE IF ~alive THEN "raise"
         ELSE IF writable THEN "file" ELSE "None"

\* take_screenshot(driver, description): None for no driver, for a driver that does
\* not answer, for no writable directory, and for any exception; else the file path
take_screenshot(handle, alive, writable) ==
    IF handle = 0 THEN "None"
    ELSE IF ~alive THEN "None"
         ELSE IF writable THEN "file" ELSE "None"

\* mid, title and meeting_info are not read again before the next poll sets them
ForgetPoll ==
    /\ response' = NoResponse
    /\ mid' = NoneVal
    /\ title' = NoneVal
    /\ meeting_info' = EmptyDict
    /\ status_trace' = <<>>

\* main() is left: its locals are gone
ForgetLocals ==
    /\ ForgetPoll
    /\ attempt' = 0
    /\ consecutive_errors' = 0
    /\ ssl_error_count' = 0
    /\ clock' = 0
    /\ start_time' = 0
    /\ step_results' = <<>>
    /\ join_result' = FALSE
    /\ exc' = ""
    /\ ssl_streak' = 0
    /\ err_streak' = 0

(***************************************************************************)
(* main(): start-up.                                                       *)
(***************************************************************************)
\* module level: open and json.load of /app/config.json, then BASE_URL, USERNAME
\* and PASSWORD; a KeyError of these three is caught by nothing
LoadConfig ==
    /\ pc = "load_config"
    /\ pc' = IF config \in {"no_file", "bad_json", "no_university_name_codetantra",
                            "no_username", "no_password"}
             THEN "exited"
             ELSE "start"
    /\ UNCHANGED <<running, config_vars, json_token, active_sessions, driver_vars, attempt,
                   counter_vars, poll_vars, current_meeting_active, status_vars, clock,
                   start_time, join_vars, exc, status_trace, streak_vars, probe_vars,
                   monitor_vars, thread_vars, shutdown_trace, sleep_left, log_vars>>
    /\ main_shot' = NoShot

\* the log lines of main() read config['refresh_time'] before its try block
MainStart ==
    /\ pc = "start"
    /\ IF config = "no_refresh_time"
       THEN /\ pc' = "exited"
            /\ UNCHANGED status_vars
       ELSE /\ update_app_status("Initializing", EmptyDict, current_meeting_info)
            /\ pc' = "launch"
    /\ attempt' = 0
    /\ UNCHANGED <<running, config_vars, json_token, active_sessions, driver_vars,
                   counter_vars, poll_vars, current_meeting_active, clock, start_time,
                   join_vars, exc, status_trace, streak_vars, probe_vars,
                   monitor_vars, thread_vars, shutdown_trace, sleep_left, log_vars>>
    /\ main_shot' = NoShot

RetryOnceMore(a) == a < max_retries

\* "if attempt < max_retries - 1" and the end of range(max_retries)
RetryLeft(a) == a < max_retries - 1

\* for attempt in range(max_retries): driver = setup_headless_driver() ...
LaunchDriver ==
    /\ pc = "launch"
    /\ \E outcome \in LaunchOutcomes :
        /\ setup_headless_driver(outcome)
        /\ IF outcome = "ok"
           THEN /\ pc' = "initial_login"
                /\ UNCHANGED <<attempt, clock, status_vars>>
           ELSE IF RetryLeft(attempt)
                THEN /\ attempt' = attempt + 1
                     /\ clock' = clock + launch_pause
                     /\ pc' = "launch"
                     /\ UNCHANGED status_vars
                ELSE /\ update_app_status("Failed to initialize driver", EmptyDict,
                                          current_meeting_info)
                     /\ pc' = "exited"
                     /\ attempt' = 0
                     /\ clock' = 0
    /\ UNCHANGED <<running, config_vars, json_token, active_sessions, counter_vars,
                   poll_vars, current_meeting_active, start_time, join_vars, exc,
                   status_trace, streak_vars, probe_vars,
                   monitor_vars, thread_vars, shutdown_trace, sleep_left, log_vars>>
    /\ main_shot' = NoShot

\* json_token = login(USERNAME, PASSWORD); if not json_token: return
LoginNeverFails(token) == FALSE

\* "if not json_token:" after the initial login
LoginFailed(token) == token = ""

\* login() reads config["myclass_url"] for its headers before the request is made;
\* the KeyError reaches the outermost handler of main()
InitialLogin ==
    /\ pc = "initial_login"
    /\ IF config = "no_myclass_url"
       THEN /\ update_app_status("Fatal error: 'myclass_url'", EmptyDict,
                                 current_meeting_info)
            /\ pc' = "finally"
            /\ UNCHANGED <<json_token, network_used>>
       ELSE /\ network_used' = TRUE
            /\ \E outcome \in LoginOutcomes :
                /\ json_token' = login(outcome)
                /\ IF LoginFailed(login(outcome))
                   THEN /\ update_app_status("Initial login failed", EmptyDict,
                                             current_meeting_info)
                        /\ pc' = "finally"
                   ELSE /\ update_app_status(LoginStatus(outcome), EmptyDict,
                                             current_meeting_info)
                        /\ pc' = "fetch"
    /\ attempt' = 0
    /\ clock' = 0
    /\ consecutive_errors' = 0
    /\ ssl_error_count' = 0
    /\ UNCHANGED <<running, config, refresh_time, active_sessions, driver_vars, poll_vars,
                   current_meeting_active, start_time, join_vars, exc, status_trace,
                   streak_vars, probe_vars,
                   monitor_vars, thread_vars, shutdown_trace, sleep_left, log_vars>>
    /\ main_shot' = NoShot

(***************************************************************************)
(* main(): one poll.  "while running" is only ever left through an         *)
(* exception or break: running is cleared by signal_handler alone, which  *)
(* ends main() by SystemExit.                                              *)
(***************************************************************************)
\* an SSL branch that never waits
SslPauseSkipped(count) == 0

\* if ssl_error_count >= max_ssl_errors: time.sleep(30)
SslPause(count) == IF count >= max_ssl_errors THEN ssl_pause ELSE 0

\* a re-login that counts the expired token as an error of the loop
ErrorsCountedOnRelogin(count) == count + 1

\* consecutive_errors = 0 after a successful re-login
ErrorsAfterRelogin(count) == 0

\* what main() keeps of the response it polled (the list itself is not kept)
Digest(r) == [r EXCEPT !.ref = <<>>]

\* the polls main() can see: what it keeps of a response, and what fetch_meetings
\* returned for that response
PollOutcomes == {<<Digest(r), fetch_meetings(r)>> : r \in PollResponses}

\* result = fetch_meetings(json_token); if mid == "TOKEN_EXPIRED": update_app_status(...)
HandleTokenExpired ==
    /\ pc = "fetch"
    /\ running
    /\ \E poll \in PollOutcomes :
        /\ poll[2][1] = "TOKEN_EXPIRED"
        /\ response' = poll[1]
        /\ mid' = poll[2][1]
        /\ title' = poll[2][2]
    /\ update_app_status("Token expired - Re-authenticating", EmptyDict, current_meeting_info)
    /\ clock' = 0
    /\ ssl_streak' = 0
    /\ pc' = "relogin"
    /\ UNCHANGED <<running, config_vars, json_token, active_sessions, driver_vars, attempt,
                   counter_vars, meeting_info, current_meeting_active, start_time, join_vars,
                   exc, status_trace, err_streak, probe_vars,
                   monitor_vars, thread_vars, shutdown_trace, sleep_left, log_vars>>
    /\ main_shot' = NoShot

\* a loop that gives up when the re-login fails
ReloginFatal(token) == IF token = "" THEN "finally" ELSE "fetch"

\* "continue" in both branches after the re-login
AfterRelogin(token) == "fetch"

\* json_token = login(...); sleep(60) and continue on failure, reset and continue on success
Relogin ==
    /\ pc = "relogin"
    /\ \E outcome \in LoginOutcomes :
        /\ json_token' = login(outcome)
        /\ IF login(outcome) = ""
           THEN /\ update_app_status("Re-authentication failed", EmptyDict,
                                     current_meeting_info)
                /\ clock' = clock + relogin_fail_pause
                /\ UNCHANGED counter_vars
           ELSE /\ update_app_status(LoginStatus(outcome), EmptyDict, current_meeting_info)
                /\ consecutive_errors' = ErrorsAfterRelogin(consecutive_errors)
                /\ ssl_error_count' = 0
                /\ UNCHANGED clock
    /\ ForgetPoll
    /\ err_streak' = 0
    /\ pc' = AfterRelogin(json_token')
    /\ UNCHANGED <<running, config_vars, active_sessions, driver_vars, attempt,
                   current_meeting_active, start_time, join_vars, exc, ssl_streak,
                   probe_vars,
                   monitor_vars, thread_vars, shutdown_trace, sleep_left, log_vars>>
    /\ main_shot' = NoShot

\* result = fetch_meetings(json_token); if mid == "SSL_ERROR": count it, publish it,
\* sleep(30) from the third on
HandleSslError ==
    /\ pc = "fetch"
    /\ running
    /\ ssl_error_count < MaxSslCount
    /\ \E poll \in PollOutcomes :
        /\ poll[2][1] = "SSL_ERROR"
        /\ response' = poll[1]
        /\ mid' = poll[2][1]
        /\ title' = poll[2][2]
    /\ ssl_error_count' = ssl_error_count + 1
    /\ ssl_streak' = Min(ssl_streak + 1, max_ssl_errors)
    /\ update_app_status(SslStatus(ssl_error_count + 1), EmptyDict, current_meeting_info)
    /\ clock' = SslPause(ssl_error_count + 1)
    /\ pc' = "ssl_relogin"
    /\ UNCHANGED <<running, config_vars, json_token, active_sessions, driver_vars, attempt,
                   consecutive_errors, meeting_info, current_meeting_active, start_time,
                   join_vars, exc, status_trace, err_streak, probe_vars,
                   monitor_vars, thread_vars, shutdown_trace, sleep_left, log_vars>>
    /\ main_shot' = NoShot

\* a re-login after an SSL error that keeps the count of SSL errors
SslCountKept(count) == count

\* ssl_error_count = 0 after the re-login succeeded
SslCountAfterLogin(count) == 0

\* json_token = login(...) after an SSL error
SslRelogin ==
    /\ pc = "ssl_relogin"
    /\ \E outcome \in LoginOutcomes :
        /\ json_token' = login(outcome)
        /\ update_app_status(LoginStatus(outcome), EmptyDict, current_meeting_info)
        /\ IF login(outcome) = ""
           THEN /\ clock' = clock + relogin_fail_pause
                /\ UNCHANGED counter_vars
           ELSE /\ consecutive_errors' = 0
                /\ ssl_error_count' = SslCountAfterLogin(ssl_error_count)
                /\ UNCHANGED clock
    /\ ForgetPoll
    /\ err_streak' = 0
    /\ pc' = "fetch"
    /\ UNCHANGED <<running, config_vars, active_sessions, driver_vars, attempt,
                   current_meeting_active, start_time, join_vars, exc, ssl_streak,
                   probe_vars,
                   monitor_vars, thread_vars, shutdown_trace, sleep_left, log_vars>>
    /\ main_shot' = NoShot

(***************************************************************************)
(* main(): a meeting was returned by the poll.                             *)
(***************************************************************************)
\* a test that forgets the meetings already joined
IsNewMeetingUnguarded(m, t, sessions) ==
    /\ m \notin {"TOKEN_EXPIRED", "SSL_ERROR"}
    /\ Truthy(m) /\ Truthy(t)

\* if mid and title and mid not in active_sessions (reached when mid is no error mark)
IsNewMeeting(m, t, sessions) ==
    /\ m \notin {"TOKEN_EXPIRED", "SSL_ERROR"}
    /\ Truthy(m) /\ Truthy(t) /\ m \notin Range(sessions)

\* result = fetch_meetings(json_token) is a meeting that passes the test
MeetingFound ==
    /\ pc = "fetch"
    /\ running
    /\ \E poll \in PollOutcomes :
        LET result == poll[2]
        IN  /\ IsNewMeeting(result[1], result[2], active_sessions)
            /\ response' = poll[1]
            /\ mid' = result[1]
            /\ title' = result[2]
            /\ IF TruthyDict(result[3])
               THEN /\ meeting_info' = WithStatus(result[3], "found")
                    /\ status_trace' = Traced(<<result[3].status>>, "found")
                    /\ update_app_status("Meeting found - Fetching details",
                                         WithStatus(result[3], "found"), current_meeting_info)
               ELSE /\ meeting_info' = result[3]
                    /\ status_trace' = <<>>
                    /\ UNCHANGED status_vars
    /\ consecutive_errors' = 0
    /\ ssl_error_count' = 0
    /\ clock' = 0
    /\ ssl_streak' = 0
    /\ pc' = "fetch_meeting"
    /\ UNCHANGED <<running, config_vars, json_token, active_sessions, driver_vars, attempt,
                   current_meeting_active, start_time, join_vars, exc, err_streak,
                   probe_vars,
                   monitor_vars, thread_vars, shutdown_trace, sleep_left, log_vars>>
    /\ main_shot' = NoShot

\* a loop that takes a poll without a new meeting for a success and counts anew
ErrorsClearedByPoll(count) == 0

\* the else branch assigns neither counter
ErrorsAfterEmptyPoll(count) == count

\* the else branch: no meeting, or one that is in active_sessions
NoNewMeeting ==
    /\ pc = "fetch"
    /\ running
    /\ \E poll \in PollOutcomes :
        /\ poll[2][1] \notin {"TOKEN_EXPIRED", "SSL_ERROR"}
        /\ ~IsNewMeeting(poll[2][1], poll[2][2], active_sessions)
        /\ response' = poll[1]
        /\ mid' = poll[2][1]
        /\ title' = poll[2][2]
    /\ IF consecutive_errors = 0 /\ ssl_error_count = 0
       THEN update_app_status("Waiting for meetings - No active meetings found", EmptyDict,
                              current_meeting_info)
       ELSE UNCHANGED status_vars
    /\ consecutive_errors' = ErrorsAfterEmptyPoll(consecutive_errors)
    /\ meeting_info' = EmptyDict
    /\ status_trace' = <<>>
    /\ clock' = 0
    /\ ssl_streak' = 0
    /\ pc' = "sleep_refresh"
    /\ UNCHANGED <<running, config_vars, json_token, active_sessions, driver_vars, attempt,
                   ssl_error_count, current_meeting_active, start_time, join_vars, exc,
                   err_streak, probe_vars,
                   monitor_vars, thread_vars, shutdown_trace, sleep_left, log_vars>>
    /\ main_shot' = NoShot

\* a look-up succeeded: on to the next statement
Resolved(next) ==
    /\ pc' = next
    /\ UNCHANGED <<poll_vars, status_trace, status_vars, clock, err_streak, exc>>

\* a failed look-up that is taken for a good one
ResolveIgnored(mark, message) == Resolved("connect")

\* one of the three look-ups failed: mark the descriptor, sleep(30), continue
ResolveFailed(mark, message) ==
    /\ IF TruthyDict(meeting_info)
       THEN update_app_status(message, WithStatus(meeting_info, mark), current_meeting_info)
       ELSE UNCHANGED status_vars
    /\ ForgetPoll
    /\ clock' = clock + resolve_fail_pause
    /\ err_streak' = 0
    /\ pc' = "fetch"
    /\ UNCHANGED exc

\* meeting_data = fetch_meeting(json_token, mid): the URL is built by string
\* concatenation outside any try, a TypeError for an id that is no string
FetchMeetingDetail ==
    /\ pc = "fetch_meeting"
    /\ IF ~IsStr(mid)
       THEN /\ exc' = "can only concatenate str (not \"int\") to str"
            /\ pc' = "error"
            /\ ForgetPoll
            /\ UNCHANGED <<status_vars, clock, err_streak>>
       ELSE \E found \in BOOLEAN :
               IF found THEN Resolved("get_session_url")
               ELSE ResolveFailed("fetch_failed", "Failed to fetch meeting details")
    /\ UNCHANGED <<running, config_vars, json_token, active_sessions, driver_vars, attempt,
                   counter_vars, current_meeting_active, start_time, join_vars, ssl_streak,
                   probe_vars,
                   monitor_vars, thread_vars, shutdown_trace, sleep_left, log_vars>>
    /\ main_shot' = NoShot

\* sess_url = get_session_url(meeting_data)
GetSessionUrl ==
    /\ pc = "get_session_url"
    /\ \E found \in BOOLEAN :
        IF found THEN Resolved("get_session_token")
        ELSE ResolveFailed("url_failed", "Failed to extract session URL")
    /\ UNCHANGED <<running, config_vars, json_token, active_sessions, driver_vars, attempt,
                   counter_vars, current_meeting_active, start_time, join_vars, ssl_streak,
                   probe_vars,
                   monitor_vars, thread_vars, shutdown_trace, sleep_left, log_vars>>
    /\ main_shot' = NoShot

\* sess_token_url = get_session_token(sess_url), then the screenshot before the join
GetSessionToken ==
    /\ pc = "get_session_token"
    /\ \E found, writable \in BOOLEAN :
        IF found
        THEN /\ Resolved("connect")
             /\ main_shot' = Shot("connecting_to_class",
                                  take_screenshot(driver, driver \in live, writable))
        ELSE /\ ResolveFailed("token_failed", "Failed to get session token")
             /\ main_shot' = NoShot
    /\ UNCHANGED <<running, config_vars, json_token, active_sessions, driver_vars, attempt,
                   counter_vars, current_meeting_active, start_time, join_vars, ssl_streak,
                   probe_vars,
                   monitor_vars, thread_vars, shutdown_trace, sleep_left, log_vars>>

(***************************************************************************)
(* connect2class(driver, url, meeting_info).  meeting_info and            *)
(* current_meeting_info name the same dict from the first                 *)
(* update_app_status on, so a change of one is a change of both.          *)
(***************************************************************************)
\* except Exception: the join failed
ConnectRaised(info) ==
    /\ current_meeting_active' = FALSE
    /\ meeting_info' = WithStatus(info, "error")
    /\ status_trace' = Traced(status_trace, "error")
    /\ update_app_status("Connection failed", WithStatus(info, "error"), info)
    /\ join_result' = FALSE
    /\ pc' = "join_returned"

\* a join that goes from found to the click sequence without the mark
MarkSkipped(info) == info

\* current_meeting_info["status"] = "connecting"
MarkConnecting(info) == WithStatus(info, "connecting")

\* update_app_status("Connecting to meeting", meeting_info); driver.get(url); sleep(10)
Navigate ==
    /\ pc = "connect"
    /\ \E loaded \in BOOLEAN :
        IF loaded
        THEN /\ current_meeting_active' = TRUE
             /\ meeting_info' = MarkConnecting(meeting_info)
             /\ current_meeting_info' = MarkConnecting(meeting_info)
             /\ status_trace' = Traced(status_trace, MarkConnecting(meeting_info).status)
             /\ app_status' = "Connecting to meeting"
             /\ status_file' = StatusRecord("Connecting to meeting", meeting_info)
             /\ pc' = "clicking"
             /\ UNCHANGED join_result
        ELSE ConnectRaised(meeting_info)
    /\ step_results' = <<>>
    /\ UNCHANGED <<running, config_vars, json_token, active_sessions, driver_vars, attempt,
                   counter_vars, response, mid, title, clock, start_time, exc, streak_vars,
                   probe_vars,
                   monitor_vars, thread_vars, shutdown_trace, sleep_left, log_vars>>
    /\ main_shot' = NoShot

\* a join that needs the final connect button to have been clicked
NeedsFinalClick(results) ==
    safe_click_element(results[Len(click_sequence)]) = "True"

\* the sequence completed: return True
SequenceResult(results) == TRUE

\* one turn of "for xpath, description in click_sequence", and what follows the last
ClickStep ==
    /\ pc = "clicking"
    /\ Len(step_results) < Len(click_sequence)
    /\ \E outcome \in StepOutcomes :
        LET results == Append(step_results, outcome)
        IN  /\ step_results' = results
            /\ IF LeavesSequence(safe_click_element(outcome))
               THEN ConnectRaised(current_meeting_info)
               ELSE IF Len(results) < Len(click_sequence)
                    THEN /\ pc' = "clicking"
                         /\ UNCHANGED <<current_meeting_active, meeting_info, status_trace,
                                        status_vars, join_result>>
                    ELSE IF SequenceResult(results)
                         THEN /\ meeting_info' = WithStatus(current_meeting_info, "connected")
                              /\ status_trace' = Traced(status_trace, "connected")
                              /\ update_app_status("Connected to meeting",
                                    WithStatus(current_meeting_info, "connected"),
                                    current_meeting_info)
                              /\ join_result' = TRUE
                              /\ pc' = "join_returned"
                              /\ UNCHANGED current_meeting_active
                         ELSE ConnectRaised(current_meeting_info)
    /\ UNCHANGED <<running, config_vars, json_token, active_sessions, driver_vars, attempt,
                   counter_vars, response, mid, title, clock, start_time, exc, streak_vars,
                   probe_vars,
                   monitor_vars, thread_vars, shutdown_trace, sleep_left, log_vars>>
    /\ main_shot' = NoShot

(***************************************************************************)
(* main(): after connect2class returned.                                   *)
(***************************************************************************)
\* a loop that records every meeting it tried to join
SessionsAfterAttempt(sessions, m, joined) == Append(sessions, m)

\* if connect2class(...): active_sessions.append(mid)
SessionsAfterJoin(sessions, m, joined) == IF joined THEN Append(sessions, m) ELSE sessions

ShotOnSuccessOnly(joined) == IF joined THEN "connected_successfully" ELSE ""

\* take_screenshot(driver, "connected_successfully") or (driver, "connection_failed")
ShotAfterJoin(joined) == IF joined THEN "connected_successfully" ELSE "connection_failed"

HandleJoinResult ==
    /\ pc = "join_returned"
    /\ active_sessions' = SessionsAfterJoin(active_sessions, mid, join_result)
    /\ \E writable \in BOOLEAN :
        main_shot' = Shot(ShotAfterJoin(join_result),
                          take_screenshot(driver, driver \in live, writable))
    /\ IF join_result
       THEN /\ start_time' = clock
            /\ pc' = "hold"
            /\ UNCHANGED <<current_meeting_active, status_vars, poll_vars, status_trace>>
       ELSE /\ current_meeting_active' = FALSE
            /\ update_app_status("Failed to connect to meeting", EmptyDict, EmptyDict)
            /\ ForgetPoll
            /\ pc' = "sleep_refresh"
            /\ UNCHANGED start_time
    /\ step_results' = <<>>
    /\ join_result' = FALSE
    /\ UNCHANGED <<running, config_vars, json_token, driver_vars, attempt, counter_vars,
                   clock, exc, streak_vars, probe_vars,
                   monitor_vars, thread_vars, shutdown_trace, sleep_left, log_vars>>

\* a hold that runs one tick too long
HoldContinuesAtLimit(elapsed) == elapsed <= connection_time

\* while time.time() - start_time < connection_time
HoldContinues(elapsed) == elapsed < connection_time

\* time.sleep(30); remaining = ...; publish it
HoldTick ==
    /\ pc = "hold"
    /\ HoldContinues(clock - start_time) /\ running
    /\ clock' = clock + hold_tick
    /\ LET remaining == connection_time - (clock + hold_tick - start_time)
       IN  IF TruthyDict(current_meeting_info)
           THEN /\ meeting_info' = WithRemaining(current_meeting_info, remaining)
                /\ update_app_status("Connected to meeting",
                                     WithRemaining(current_meeting_info, remaining),
                                     current_meeting_info)
           ELSE UNCHANGED <<meeting_info, status_vars>>
    /\ UNCHANGED <<pc, running, config_vars, json_token, active_sessions, driver_vars,
                   attempt, counter_vars, response, mid, title, current_meeting_active,
                   start_time, join_vars, exc, status_trace, streak_vars, probe_vars,
                   monitor_vars, thread_vars, shutdown_trace, sleep_left, log_vars>>
    /\ main_shot' = NoShot

\* the hold is over: clear the meeting and go on to the sleep before the next poll
HoldEnd ==
    /\ pc = "hold"
    /\ ~(HoldContinues(clock - start_time) /\ running)
    /\ current_meeting_active' = FALSE
    /\ update_app_status("Meeting session completed", EmptyDict, EmptyDict)
    /\ ForgetPoll
    /\ UNCHANGED start_time
    /\ pc' = "sleep_refresh"
    /\ UNCHANGED <<running, config_vars, json_token, active_sessions, driver_vars, attempt,
                   counter_vars, clock, join_vars, exc, streak_vars, probe_vars,
                   monitor_vars, thread_vars, shutdown_trace, sleep_left, log_vars>>
    /\ main_shot' = NoShot

\* time.sleep(config["refresh_time"]): a TypeError for a value that is no number
SleepRefresh ==
    /\ pc = "sleep_refresh"
    /\ IF refresh_time.type = "int"
       THEN /\ clock' = clock + refresh_time.val
            /\ err_streak' = 0
            /\ pc' = "fetch"
            /\ UNCHANGED exc
       ELSE /\ exc' = "'str' object cannot be interpreted as an integer"
            /\ pc' = "error"
            /\ UNCHANGED <<clock, err_streak>>
    /\ ForgetPoll
    /\ UNCHANGED <<running, config_vars, json_token, active_sessions, driver_vars, attempt,
                   counter_vars, current_meeting_active, status_vars, start_time, join_vars,
                   ssl_streak, probe_vars,
                   monitor_vars, thread_vars, shutdown_trace, sleep_left, log_vars>>
    /\ main_shot' = NoShot

(***************************************************************************)
(* main(): except Exception, and the driver restart.                       *)
(***************************************************************************)
\* a restart that waits for one error more
RestartDueLate(count) == count > max_consecutive_errors

\* if consecutive_errors >= max_consecutive_errors
RestartDue(count) == count >= max_consecutive_errors

\* a pause that does not grow with the count
BackoffFlat(count) == backoff_unit

\* min(30 * consecutive_errors, 300)
Backoff(count) == Min(backoff_unit * count, backoff_cap)

\* except Exception: count it; back off, or clean the driver up for a restart
ErrorHandler ==
    /\ pc = "error"
    /\ consecutive_errors' = consecutive_errors + 1
    /\ err_streak' = Min(err_streak + 1, max_consecutive_errors)
    /\ exc' = ""
    /\ IF RestartDue(consecutive_errors + 1)
       THEN \E quit \in QuitOutcomes :
               /\ live' = AfterQuit(quit)
               /\ current_meeting_active' = FALSE
               /\ update_app_status("Restarting driver due to errors", EmptyDict, EmptyDict)
               /\ pc' = "restart_pause"
               /\ UNCHANGED clock
       ELSE /\ update_app_status("Error in main loop: " \o exc, EmptyDict,
                                 current_meeting_info)
            /\ clock' = clock + Backoff(consecutive_errors + 1)
            /\ pc' = "fetch"
            /\ UNCHANGED <<live, current_meeting_active>>
    /\ UNCHANGED <<running, config_vars, json_token, active_sessions, driver, launched,
                   attempt, ssl_error_count, poll_vars, start_time, join_vars, status_trace,
                   ssl_streak, probe_vars,
                   monitor_vars, thread_vars, shutdown_trace, sleep_left, log_vars>>
    /\ main_shot' = NoShot

\* time.sleep(30) between cleanup_driver and setup_headless_driver
RestartPause ==
    /\ pc = "restart_pause"
    /\ clock' = clock + restart_pause
    /\ pc' = "relaunch"
    /\ UNCHANGED <<running, config_vars, json_token, active_sessions, driver_vars, attempt,
                   counter_vars, poll_vars, current_meeting_active, status_vars, start_time,
                   join_vars, exc, status_trace, streak_vars, probe_vars,
                   monitor_vars, thread_vars, shutdown_trace, sleep_left, log_vars>>
    /\ main_shot' = NoShot

\* a restart that keeps the count of errors
ErrorsKeptOnRelaunch(count) == count

\* consecutive_errors = 0 after the driver came back
ErrorsAfterRelaunch(count) == 0

RestartGoesOn(handle) == FALSE

\* "if not driver:" after the relaunch
RestartGivesUp(handle) == handle = 0

\* driver = setup_headless_driver(); break when it is None
Relaunch ==
    /\ pc = "relaunch"
    /\ \E outcome \in LaunchOutcomes :
        /\ setup_headless_driver(outcome)
        /\ IF ~RestartGivesUp(driver')
           THEN /\ consecutive_errors' = ErrorsAfterRelaunch(consecutive_errors)
                /\ pc' = "fetch"
                /\ UNCHANGED <<status_vars, attempt, ssl_error_count, poll_vars, clock,
                               start_time, join_vars, exc, status_trace, streak_vars>>
           ELSE /\ update_app_status("Failed to restart driver", EmptyDict,
                                     current_meeting_info)
                /\ pc' = "finally"
                /\ ForgetLocals
    /\ UNCHANGED <<running, config_vars, json_token, active_sessions,
                   current_meeting_active, probe_vars,
                   monitor_vars, thread_vars, shutdown_trace, sleep_left, log_vars>>
    /\ main_shot' = NoShot

(***************************************************************************)
(* main()'s finally block and signal_handler.                              *)
(***************************************************************************)
\* "if driver: driver.quit()": the call is made for a handle that is not None
QuitEvents(handle) == IF handle # 0 THEN <<"quit">> ELSE <<>>

\* a cleanup that writes its status and leaves the browser alone
CleanupSkipsQuit(handle) == <<"Driver cleanup">>

\* cleanup_driver: update_app_status("Driver cleanup"), then the quit
cleanup_driver_events(handle) == <<"Driver cleanup">> \o QuitEvents(handle)

\* finally: clear the meeting, cleanup_driver(driver), "Application shutdown"
Finally ==
    /\ pc = "finally"
    /\ \E quit \in QuitOutcomes : live' = AfterQuit(quit)
    /\ current_meeting_active' = FALSE
    /\ update_app_status("Application shutdown", EmptyDict, EmptyDict)
    /\ shutdown_trace' = shutdown_trace \o cleanup_driver_events(driver)
                             \o <<"Application shutdown">>
    /\ pc' = "done"
    /\ ForgetLocals
    /\ UNCHANGED <<running, config_vars, json_token, active_sessions, driver, launched,
                   probe_vars,
                   monitor_vars, thread_vars, sleep_left, log_vars>>
    /\ main_shot' = NoShot

\* a SystemExit that is swallowed where it was raised
ExitIgnored(p) == p

\* sys.exit(0) in the handler: the process ends, through main()'s finally block once
\* main() is inside its try
ExitPath(p) == IF p \in {"load_config", "start", "launch"} THEN "exited" ELSE "finally"

\* SIGTERM or SIGINT: the handler runs in the main thread and ends it by sys.exit(0),
\* which passes main()'s finally block once main() is inside its try
Signal ==
    /\ running
    /\ pc \notin {"finally", "done", "exited"}
    /\ running' = FALSE
    /\ update_app_status("Shutting down", EmptyDict, current_meeting_info)
    /\ \E quit \in QuitOutcomes : live' = AfterQuit(quit)
    /\ shutdown_trace' = <<"Shutting down">> \o QuitEvents(driver)
    /\ pc' = ExitPath(pc)
    /\ ForgetLocals
    /\ UNCHANGED <<config_vars, json_token, active_sessions, driver, launched,
                   current_meeting_active, probe_vars,
                   monitor_vars, thread_vars, sleep_left, log_vars>>
    /\ main_shot' = NoShot

Next ==
    \/ LoadConfig
    \/ MainStart
    \/ LaunchDriver
    \/ InitialLogin
    \/ HandleTokenExpired
    \/ Relogin
    \/ HandleSslError
    \/ SslRelogin
    \/ MeetingFound
    \/ NoNewMeeting
    \/ FetchMeetingDetail
    \/ GetSessionUrl
    \/ GetSessionToken
    \/ Navigate
    \/ ClickStep
    \/ HandleJoinResult
    \/ HoldTick
    \/ HoldEnd
    \/ SleepRefresh
    \/ ErrorHandler
    \/ RestartPause
    \/ Relaunch
    \/ Finally
    \/ Signal

Spec == Init /\ [][Next]_vars

(***************************************************************************)
(* The monitor threads (screenshot_monitor, meeting_screenshot_monitor)   *)
(* next to main(): each reads the global driver, probes it with           *)
(* driver.current_url and gives it to take_screenshot, while main() may   *)
(* quit or replace the browser between any two of these steps.            *)
(***************************************************************************)
\* the threads are started inside main()'s try and end with the process
MonitorsRun == pc \notin {"load_config", "start", "launch", "done", "exited"}

\* a monitor's turn to take a screenshot: "... and driver", then driver.current_url
MonitorCheck ==
    /\ MonitorsRun
    /\ running
    /\ mon_pc = "idle"
    /\ \E kind \in {"manual_request", "meeting_15min_auto"} :
        kind = "meeting_15min_auto" => current_meeting_active
    /\ driver # 0
    /\ IF driver \in live
       THEN /\ mon_pc' = "shoot"
            /\ mon_handle' = driver
            /\ mon_shot' = ""
       ELSE /\ mon_pc' = "idle"
            /\ mon_handle' = 0
            /\ mon_shot' = "None"
    /\ UNCHANGED <<pc, running, config_vars, json_token, active_sessions, driver_vars,
                   attempt, counter_vars, poll_vars, current_meeting_active, status_vars,
                   clock, start_time, join_vars, exc, status_trace, streak_vars,
                   probe_vars, main_shot, thread_vars, shutdown_trace, sleep_left, log_vars>>

\* take_screenshot(driver, ...) in the monitor, with the object it read before
MonitorShoot ==
    /\ MonitorsRun
    /\ mon_pc = "shoot"
    /\ \E writable \in BOOLEAN :
        mon_shot' = take_screenshot(mon_handle, mon_handle \in live, writable)
    /\ mon_pc' = "idle"
    /\ mon_handle' = 0
    /\ UNCHANGED <<pc, running, config_vars, json_token, active_sessions, driver_vars,
                   attempt, counter_vars, poll_vars, current_meeting_active, status_vars,
                   clock, start_time, join_vars, exc, status_trace, streak_vars,
                   probe_vars, main_shot, thread_vars, shutdown_trace, sleep_left, log_vars>>

NextMonitor ==
    \/ Next
    \/ MonitorCheck
    \/ MonitorShoot

SpecMonitor == Init /\ [][NextMonitor]_vars

(***************************************************************************)
(* The daemon threads of the script: screenshot_monitor (the request       *)
(* watcher), meeting_screenshot_monitor (the 15-minute timer) and          *)
(* periodic_cleanup.  A step of a thread runs up to its next sleep or      *)
(* driver call.                                                            *)
(***************************************************************************)
foreground_vars ==
    <<pc, running, config_vars, json_token, active_sessions, launched, live, attempt,
      counter_vars, poll_vars, current_meeting_active, status_vars, clock, start_time,
      join_vars, exc, status_trace, streak_vars, probe_vars, main_shot, monitor_vars,
      shutdown_trace, sleep_left, log_vars>>

\* a monitor that would drop the global driver it found unusable
MonitorResets(handle) == 0

\* the monitors read the global driver and leave it as it is
MonitorLeaves(handle) == handle

\* periodic_cleanup is started before the browser, the two monitors after it
CleanupRuns == pc \notin {"load_config", "start", "done", "exited"}

\* check_for_screenshot_request(): the first file of the loop that exists and
\* that os.remove deletes is consumed; a failed os.remove is passed over
check_for_screenshot_request(requests, removable) ==
    LET hits == {k \in 1..Len(screenshot_request_files) :
                    screenshot_request_files[k] \in requests \cap removable}
    IN  IF hits = {}
        THEN [found |-> FALSE, requests |-> requests]
        ELSE LET first == CHOOSE k \in hits : \A j \in hits : k <= j
             IN  [found |-> TRUE,
                  requests |-> requests \ {screenshot_request_files[first]}]

\* the dashboard's /api/screenshot, or anyone else, creates a request file
trigger_screenshot ==
    /\ \E f \in {screenshot_request_files[k] : k \in 1..Len(screenshot_request_files)} :
        files' = [files EXCEPT !.requests = @ \cup {f}]
    /\ UNCHANGED <<foreground_vars, driver, screenshot_thread, meeting_screenshot_thread,
                   cleanup_thread>>

\* screenshot_monitor, one check: "if check_for_screenshot_request() and driver",
\* and time.sleep(5) when there is nothing to do
ScreenshotMonitorCheck ==
    /\ MonitorsRun
    /\ running
    /\ screenshot_thread.pc = "check"
    /\ \E removable \in SUBSET files.requests :
        LET checked == check_for_screenshot_request(files.requests, removable)
        IN  /\ files' = [files EXCEPT !.requests = checked.requests]
            /\ screenshot_thread' =
                 IF checked.found /\ driver # 0
                 THEN [pc |-> "shoot", handle |-> driver, out |-> NoShot]
                 ELSE [pc |-> "check", handle |-> 0, out |-> NoShot]
    /\ driver' = MonitorLeaves(driver)
    /\ UNCHANGED <<foreground_vars, meeting_screenshot_thread, cleanup_thread>>

\* screenshot_monitor after a request: driver.current_url, then
\* take_screenshot(driver, "manual_request"), or a warning if the browser is gone
ScreenshotMonitorShoot ==
    /\ MonitorsRun
    /\ screenshot_thread.pc = "shoot"
    /\ \E writable \in BOOLEAN :
        screenshot_thread' =
            [pc |-> "check", handle |-> 0,
             out |-> IF screenshot_thread.handle \in live
                     THEN Shot("manual_request",
                               take_screenshot(screenshot_thread.handle, TRUE, writable))
                     ELSE NoShot]
    /\ driver' = MonitorLeaves(driver)
    /\ UNCHANGED <<foreground_vars, meeting_screenshot_thread, cleanup_thread, files>>

\* a wait that ends after its first second
InShortWait(i) == i < 1

\* "for i in range(wait_time)": the seconds of the wait that are still to come
InWait(i) == i < wait_time

\* meeting_screenshot_monitor outside a wait: "if current_meeting_active and
\* driver" starts one, otherwise time.sleep(10)
MeetingMonitorLook ==
    /\ MonitorsRun
    /\ running
    /\ meeting_screenshot_thread.pc = "idle"
    /\ meeting_screenshot_thread' =
         IF current_meeting_active /\ driver # 0
         THEN [pc |-> "wait", i |-> 0, handle |-> 0, out |-> NoShot]
         ELSE [pc |-> "idle", i |-> 0, handle |-> 0, out |-> NoShot]
    /\ driver' = MonitorLeaves(driver)
    /\ UNCHANGED <<foreground_vars, screenshot_thread, cleanup_thread, files>>

\* one second of the wait: the break on shutdown or meeting end, time.sleep(1),
\* and after the loop "if current_meeting_active and driver and running"
MeetingMonitorWait ==
    /\ MonitorsRun
    /\ meeting_screenshot_thread.pc = "wait"
    /\ meeting_screenshot_thread' =
         IF InWait(meeting_screenshot_thread.i) /\ running /\ current_meeting_active
         THEN [meeting_screenshot_thread EXCEPT !.i = @ + 1]
         ELSE IF current_meeting_active /\ driver # 0 /\ running
              THEN [meeting_screenshot_thread EXCEPT !.pc = "shoot", !.handle = driver]
              ELSE [pc |-> "idle", i |-> 0, handle |-> 0, out |-> NoShot]
    /\ driver' = MonitorLeaves(driver)
    /\ UNCHANGED <<foreground_vars, screenshot_thread, cleanup_thread, files>>

\* after the full wait: driver.current_url, then
\* take_screenshot(driver, "meeting_15min_auto"), or a warning
MeetingMonitorShoot ==
    /\ MonitorsRun
    /\ meeting_screenshot_thread.pc = "shoot"
    /\ \E writable \in BOOLEAN :
        meeting_screenshot_thread' =
            [pc |-> "idle", i |-> 0, handle |-> 0,
             out |-> IF meeting_screenshot_thread.handle \in live
                     THEN Shot("meeting_15min_auto",
                               take_screenshot(meeting_screenshot_thread.handle, TRUE,
                                               writable))
                     ELSE NoShot]
    /\ driver' = MonitorLeaves(driver)
    /\ UNCHANGED <<foreground_vars, screenshot_thread, cleanup_thread, files>>

\* seconds on the clock of periodic_cleanup: its sleeps so far
CleanupNow == cleanup_sleep * (cleanup_checks * cleanup_thread.ticks + cleanup_thread.i)

\* cleanup_logs_on_startup and cleanup_old_logs: every *.log file is truncated;
\* the value is the set of log files that still have content
cleanup_logs_on_startup(logs) == {}
cleanup_old_logs(logs) == {}

\* cleanup_screenshots_on_startup: every screenshot_*.png is removed
cleanup_screenshots_on_startup(shots) == {}

\* an age limit that takes the files of exactly that age as well
ExpiredAtLimit(file_age) == file_age >= max_file_age

\* cleanup_old_screenshots: "if file_age > 43200"
Expired(file_age) == file_age > max_file_age

cleanup_old_screenshots(shots, current_time) ==
    {ctime \in shots : ~Expired(current_time - ctime)}

\* periodic_cleanup, first statements: the two startup cleanups
CleanupStartup ==
    /\ CleanupRuns
    /\ cleanup_thread.pc = "startup"
    /\ files' = [files EXCEPT !.logs = cleanup_logs_on_startup(@),
                              !.shots = cleanup_screenshots_on_startup(@)]
    /\ cleanup_thread' = [cleanup_thread EXCEPT !.pc = "wait"]
    /\ driver' = MonitorLeaves(driver)
    /\ UNCHANGED <<foreground_vars, screenshot_thread, meeting_screenshot_thread>>

\* one of the 4320 checks of the wait: break if not running, else time.sleep(10);
\* a thread that saw the shutdown leaves its while loop
CleanupWait ==
    /\ CleanupRuns
    /\ cleanup_thread.pc = "wait"
    /\ cleanup_thread.i < cleanup_checks
    /\ cleanup_thread' =
         IF running
         THEN [cleanup_thread EXCEPT !.i = @ + 1]
         ELSE [cleanup_thread EXCEPT !.pc = "stopped"]
    /\ driver' = MonitorLeaves(driver)
    /\ UNCHANGED <<foreground_vars, screenshot_thread, meeting_screenshot_thread, files>>

\* the end of the wait: "if running: cleanup_old_logs(); cleanup_old_screenshots()"
CleanupTick ==
    /\ CleanupRuns
    /\ cleanup_thread.pc = "wait"
    /\ cleanup_thread.i = cleanup_checks
    /\ cleanup_thread.ticks < MaxTicks
    /\ IF running
       THEN /\ files' = [files EXCEPT !.logs = cleanup_old_logs(@),
                                      !.shots = cleanup_old_screenshots(@, CleanupNow)]
            /\ cleanup_thread' = [cleanup_thread EXCEPT !.i = 0, !.ticks = @ + 1]
       ELSE /\ files' = files
            /\ cleanup_thread' = [cleanup_thread EXCEPT !.pc = "stopped"]
    /\ driver' = MonitorLeaves(driver)
    /\ UNCHANGED <<foreground_vars, screenshot_thread, meeting_screenshot_thread>>

\* take_screenshot saves a file: driver.get_screenshot_as_png(), written to filepath
ScreenshotSaved ==
    /\ CleanupRuns
    /\ cleanup_thread.pc = "wait"
    /\ CleanupNow \in CreationTimes
    /\ CleanupNow \notin files.shots
    /\ files' = [files EXCEPT !.shots = @ \cup {CleanupNow}]
    /\ UNCHANGED <<foreground_vars, driver, screenshot_thread, meeting_screenshot_thread,
                   cleanup_thread>>

\* the logging handler appends to its file
LogWritten ==
    /\ CleanupRuns
    /\ \E f \in LogFiles :
        /\ f \notin files.logs
        /\ files' = [files EXCEPT !.logs = @ \cup {f}]
    /\ UNCHANGED <<foreground_vars, driver, screenshot_thread, meeting_screenshot_thread,
                   cleanup_thread>>

\* the foreground with a server that has one class or none, clicks that work, and
\* no reply other than 200
QuietStep ==
    /\ response' \in {NoResponse, HttpResponse(200, "json", <<>>)}
    /\ mid' \in {NoneVal, "m1"}
    /\ title' \in {NoneVal, "Maths"}
    /\ step_results' \in SeqsUpTo({"clicked"}, Len(click_sequence))

\* the threads share nothing with each other, so each is followed on its own:
\* in a behaviour only one of them takes steps.  The request watcher is followed
\* next to every main() of QuietStep, the timer next to the main() of a valid
\* configuration.  periodic_cleanup reads nothing of main() but running, so it is
\* followed next to a main() that waits for its first reply and can only be shut
\* down
WatcherTurn ==
    /\ meeting_screenshot_thread = TimerStart
    /\ cleanup_thread = CleanupStart
TimerTurn ==
    /\ screenshot_thread = WatcherStart
    /\ files = FilesStart
    /\ cleanup_thread = CleanupStart
    /\ config = "valid"
CleanupTurn ==
    /\ screenshot_thread = WatcherStart
    /\ meeting_screenshot_thread = TimerStart
    /\ files.requests = {}
    /\ cleanup_thread = CleanupStart =>
          pc = "initial_login" /\ config = "valid" /\ launched = 1

Foreground ==
    /\ Next
    /\ QuietStep
    /\ cleanup_thread = CleanupStart \/ ~running'

NextThreads ==
    \/ Foreground
    \/ WatcherTurn /\ trigger_screenshot
    \/ WatcherTurn /\ ScreenshotMonitorCheck
    \/ WatcherTurn /\ ScreenshotMonitorShoot
    \/ TimerTurn /\ MeetingMonitorLook
    \/ TimerTurn /\ MeetingMonitorWait
    \/ TimerTurn /\ MeetingMonitorShoot
    \/ CleanupTurn /\ CleanupStartup
    \/ CleanupTurn /\ CleanupWait
    \/ CleanupTurn /\ CleanupTick
    \/ CleanupTurn /\ ScreenshotSaved
    \/ CleanupTurn /\ LogWritten

SpecThreads == Init /\ [][NextThreads]_vars

(***************************************************************************)
(* The join and the hold next to the meeting screenshot timer, with time:  *)
(* a step of main() takes no time, its sleeps and the waits of a click     *)
(* step take the seconds the code gives them, and so do the sleeps of the  *)
(* timer.  clock counts the seconds since connect2class was entered;       *)
(* sleep_left is what is left of the sleep or wait main() is in.           *)
(***************************************************************************)
timed_frame ==
    <<running, config_vars, json_token, active_sessions, driver_vars, attempt,
      counter_vars, poll_vars, status_vars, join_result, exc, status_trace, streak_vars,
      probe_vars, main_shot, monitor_vars, screenshot_thread, cleanup_thread, files,
      shutdown_trace, log_vars>>

\* main() polls with a browser and a token, the timer has found no meeting yet
InitTimed ==
    /\ pc = "t_poll"
    /\ running = TRUE
    /\ config = "valid"
    /\ refresh_time = RefreshOf(config)
    /\ network_used = TRUE
    /\ json_token = "cookie"
    /\ active_sessions = <<>>
    /\ driver = 1
    /\ live = {1}
    /\ launched = 1
    /\ attempt = 0
    /\ consecutive_errors = 0
    /\ ssl_error_count = 0
    /\ response = NoResponse
    /\ mid = NoneVal
    /\ title = NoneVal
    /\ meeting_info = EmptyDict
    /\ current_meeting_active = FALSE
    /\ current_meeting_info = EmptyDict
    /\ app_status = "Starting"
    /\ status_file = <<>>
    /\ clock = 0
    /\ start_time = 0
    /\ step_results = <<>>
    /\ join_result = FALSE
    /\ exc = ""
    /\ status_trace = <<>>
    /\ ssl_streak = 0
    /\ err_streak = 0
    /\ probe_feed = <<>>
    /\ probe_out = <<>>
    /\ main_shot = NoShot
    /\ mon_pc = "idle"
    /\ mon_handle = 0
    /\ mon_shot = ""
    /\ ThreadsStart
    /\ shutdown_trace = <<>>
    /\ sleep_left = 0
    /\ LogStart

\* a poll: a new meeting is found and connect2class starts with driver.get(url) and
\* time.sleep(10), or there is none and the loop sleeps refresh_time
TimedPoll ==
    /\ pc = "t_poll"
    /\ sleep_left = 0
    /\ \E found \in BOOLEAN :
        IF found
        THEN /\ pc' = "t_navigate"
             /\ sleep_left' = page_wait
        ELSE /\ pc' = "t_sleep"
             /\ sleep_left' = refresh_time.val
    /\ clock' = 0
    /\ UNCHANGED <<timed_frame, current_meeting_active, start_time, step_results,
                   meeting_screenshot_thread>>

\* connect2class after the page wait: current_meeting_active = True
TimedFlag ==
    /\ pc = "t_navigate"
    /\ sleep_left = 0
    /\ current_meeting_active' = TRUE
    /\ pc' = "t_click"
    /\ UNCHANGED <<timed_frame, clock, start_time, step_results, sleep_left,
                   meeting_screenshot_thread>>

\* the seconds one step of the click sequence takes: the wait for the element (none to
\* all of its 60 seconds), the sleep(1) before a click, and the sleep(5) after the step
StepSeconds(outcome) ==
    IF outcome = "clicked"
    THEN {click_settle + click_pause, click_timeout + click_settle + click_pause}
    ELSE IF outcome = "timeout"
         THEN {click_timeout + click_pause}
         ELSE {click_pause, click_timeout + click_pause}

\* the next step of the click sequence, step_results counting the steps done; an
\* exception that safe_click_element does not catch ends the join with the flag cleared
TimedClick ==
    /\ pc = "t_click"
    /\ sleep_left = 0
    /\ Len(step_results) < Len(click_sequence)
    /\ \E outcome \in StepOutcomes :
        IF LeavesSequence(safe_click_element(outcome))
        THEN /\ current_meeting_active' = FALSE
             /\ step_results' = <<>>
             /\ pc' = "t_sleep"
             /\ sleep_left' = refresh_time.val
        ELSE /\ step_results' = Append(step_results, "clicked")
             /\ sleep_left' \in StepSeconds(outcome)
             /\ UNCHANGED <<pc, current_meeting_active>>
    /\ UNCHANGED <<timed_frame, clock, start_time, meeting_screenshot_thread>>

\* connect2class returned True: start_time = time.time()
TimedConnected ==
    /\ pc = "t_click"
    /\ sleep_left = 0
    /\ Len(step_results) = Len(click_sequence)
    /\ step_results' = <<>>
    /\ start_time' = clock
    /\ pc' = "t_hold"
    /\ UNCHANGED <<timed_frame, clock, current_meeting_active, sleep_left,
                   meeting_screenshot_thread>>

\* while time.time() - start_time < connection_time and running: time.sleep(30)
TimedHoldTick ==
    /\ pc = "t_hold"
    /\ sleep_left = 0
    /\ HoldContinues(clock - start_time) /\ running
    /\ sleep_left' = hold_tick
    /\ UNCHANGED <<timed_frame, pc, clock, start_time, step_results,
                   current_meeting_active, meeting_screenshot_thread>>

\* the hold is over: current_meeting_active = False, then the sleep before the poll
TimedHoldEnd ==
    /\ pc = "t_hold"
    /\ sleep_left = 0
    /\ ~(HoldContinues(clock - start_time) /\ running)
    /\ current_meeting_active' = FALSE
    /\ start_time' = 0
    /\ pc' = "t_sleep"
    /\ sleep_left' = refresh_time.val
    /\ UNCHANGED <<timed_frame, clock, step_results, meeting_screenshot_thread>>

\* time.sleep(config["refresh_time"]) is over
TimedWake ==
    /\ pc = "t_sleep"
    /\ sleep_left = 0
    /\ pc' = "t_poll"
    /\ clock' = 0
    /\ UNCHANGED <<timed_frame, current_meeting_active, start_time, step_results,
                   sleep_left, meeting_screenshot_thread>>

\* meeting_screenshot_monitor over one second.  Outside a wait it looks at the flag
\* once in 10 seconds, so at the latest 10 seconds after the flag was set; in a wait
\* it makes its check and sleeps a second, or leaves the loop and takes the
\* screenshot if the flag, the driver and running still hold
TimerSecond(looks) ==
    LET t == meeting_screenshot_thread
    IN  IF t.pc = "idle"
        THEN IF current_meeting_active /\ driver # 0 /\ looks
             THEN [pc |-> "wait", i |-> 1, handle |-> 0, out |-> NoShot]
             ELSE t
        ELSE IF InWait(t.i) /\ running /\ current_meeting_active
             THEN [t EXCEPT !.i = @ + 1]
             ELSE [pc |-> "idle", i |-> 0, handle |-> 0,
                   out |-> IF current_meeting_active /\ driver \in live /\ running
                           THEN Shot("meeting_15min_auto",
                                     take_screenshot(driver, TRUE, TRUE))
                           ELSE NoShot]

\* one second passes while main() sleeps or waits
Second ==
    /\ sleep_left > 0
    /\ sleep_left' = sleep_left - 1
    /\ clock' = clock + 1
    /\ \E looks \in BOOLEAN :
        /\ (current_meeting_active /\ clock - page_wait >= idle_sleep) => looks
        /\ meeting_screenshot_thread' = TimerSecond(looks)
    /\ UNCHANGED <<timed_frame, pc, start_time, step_results, current_meeting_active>>

NextTimed ==
    \/ TimedPoll
    \/ TimedFlag
    \/ TimedClick
    \/ TimedConnected
    \/ TimedHoldTick
    \/ TimedHoldEnd
    \/ TimedWake
    \/ Second

SpecTimed == InitTimed /\ [][NextTimed]_vars

(***************************************************************************)
(* The log file, the threads that write and clear it, and the dashboard    *)
(* that tails it.  log_file.content is the file as a sequence of           *)
(* characters, log_file.written the number of lines the handler has        *)
(* written; the n-th line is n letters and a newline, so that offsets in   *)
(* the middle of a line exist.                                             *)
(***************************************************************************)
MaxLines == 4

LineLetters == <<"a", "b", "c", "d", "e", "f", "g", "h">>

\* the text of the n-th record without its terminator
LineText(n) == [i \in 1..n |-> LineLetters[((n - 1) % Len(LineLetters)) + 1]]

\* the record as the handler emits it: the formatted line and "\n"
LogLine(n) == LineText(n) \o <<"\n">>

\* a handler that opens its file anew for each record
FileHandlerRewrite(content, line) == line

\* logging.FileHandler, opened in append mode: the record goes to the end of the file
FileHandlerWrite(content, line) == content \o line

\* with open(log_file, 'w') as f: f.write('')
ClearedLog(content) == <<>>

Whitespace == {" ", "\n"}

\* str.strip()
RECURSIVE strip(_)
strip(text) ==
    IF text = <<>>
    THEN <<>>
    ELSE IF Head(text) \in Whitespace
         THEN strip(Tail(text))
         ELSE IF text[Len(text)] \in Whitespace
              THEN strip(SubSeq(text, 1, Len(text) - 1))
              ELSE text

\* str.split('\n'): the pieces between the newlines, the empty ones included
RECURSIVE split(_)
split(text) ==
    IF \A i \in 1..Len(text) : text[i] # "\n"
    THEN <<text>>
    ELSE LET k == CHOOSE i \in 1..Len(text) :
                      /\ text[i] = "\n"
                      /\ \A j \in 1..(i - 1) : text[j] # "\n"
         IN  <<SubSeq(text, 1, k - 1)>> \o split(SubSeq(text, k + 1, Len(text)))

\* [line.strip() for line in new_content.split('\n') if line.strip()]
RECURSIVE StrippedLines(_)
StrippedLines(pieces) ==
    IF pieces = <<>>
    THEN <<>>
    ELSE IF strip(Head(pieces)) # <<>>
         THEN <<strip(Head(pieces))>> \o StrippedLines(Tail(pieces))
         ELSE StrippedLines(Tail(pieces))

\* f.seek(self.last_position); f.read(): what lies behind the offset, nothing when
\* the offset is at or past the end of the file
ReadFrom(content, position) ==
    IF position >= Len(content)
    THEN <<>>
    ELSE SubSeq(content, position + 1, Len(content))

\* f.tell() after the read: the end of the file, or the offset itself when it was
\* past the end
TellAfterRead(content, position) ==
    IF position >= Len(content) THEN position ELSE Len(content)

\* LogMonitor.get_new_logs_since_position on an existing file: the new lines and
\* the offset it stores
get_new_logs_since_position(content, last_position) ==
    [new_lines |-> StrippedLines(split(ReadFrom(content, last_position))),
     last_position |-> TellAfterRead(content, last_position)]

log_frame ==
    <<pc, running, config_vars, json_token, active_sessions, driver_vars, attempt,
      counter_vars, poll_vars, current_meeting_active, status_vars, clock, start_time,
      join_vars, exc, status_trace, streak_vars, probe_vars, main_shot, monitor_vars,
      thread_vars, shutdown_trace, sleep_left>>

\* main() of a valid configuration before its first step
InitLog ==
    /\ Init
    /\ config = "valid"

\* logger.info / warning / error in any thread: the handler writes one record
LogAppend ==
    /\ log_file.written < MaxLines
    /\ log_file' = [content |-> FileHandlerWrite(log_file.content,
                                                 LogLine(log_file.written + 1)),
                    written |-> log_file.written + 1]
    /\ UNCHANGED <<log_frame, log_monitor>>

\* cleanup_logs_on_startup, and cleanup_old_logs after each wait of 12 hours: the
\* cleanup thread clears the file
LogCleared ==
    /\ log_file' = [log_file EXCEPT !.content = ClearedLog(@)]
    /\ UNCHANGED <<log_frame, log_monitor>>

\* stream_logs calls log_monitor.get_new_logs_since_position()
TailCall ==
    /\ log_monitor.pc = "idle"
    /\ LET got == get_new_logs_since_position(log_file.content,
                                              log_monitor.last_position)
       IN  log_monitor' = [log_monitor EXCEPT !.pc = "returned",
                                              !.last_position = got.last_position,
                                              !.new_logs = got.new_lines]
    /\ UNCHANGED <<log_frame, log_file>>

\* stream_logs yields the new lines to its client and sleeps a second
TailYield ==
    /\ log_monitor.pc = "returned"
    /\ log_monitor' = [log_monitor EXCEPT !.pc = "idle",
                                          !.new_logs = <<>>,
                                          !.received = @ \o log_monitor.new_logs]
    /\ UNCHANGED <<log_frame, log_file>>

NextLog ==
    \/ LogAppend
    \/ LogCleared
    \/ TailCall
    \/ TailYield

SpecLog == InitLog /\ [][NextLog]_vars

(***************************************************************************)
(* update_app_status on its own: any status and descriptor, any content of *)
(* the file before, and each way the write can end.  probe_feed holds the  *)
(* arguments and the outcome of the write, probe_out what the caller gets. *)
(***************************************************************************)
ProbeStatuses == {"Initializing", "Connected to meeting", "Error in main loop: boom"}
ProbeInfos == {"none", "empty", "found", "connected"}
ProbeInfo(tag) ==
    CASE tag = "found" -> Descriptor([id |-> "m1", title |-> "Maths"])
      [] tag = "connected" -> WithStatus(Descriptor([id |-> "m2", title |-> NoneVal]),
                                         "connected")
      [] OTHER -> EmptyDict

InitStatus ==
    /\ pc = "probe_status"
    /\ probe_feed \in ProbeStatuses \X ProbeInfos \X WriteOutcomes
    /\ probe_out = <<>>
    /\ running = TRUE
    /\ config = "valid"
    /\ refresh_time = RefreshOf(config)
    /\ network_used = FALSE
    /\ json_token = "cookie"
    /\ active_sessions = <<>>
    /\ driver = 0
    /\ live = {}
    /\ launched = 0
    /\ attempt = 0
    /\ consecutive_errors = 0
    /\ ssl_error_count = 0
    /\ response = NoResponse
    /\ mid = NoneVal
    /\ title = NoneVal
    /\ meeting_info = EmptyDict
    /\ current_meeting_active = FALSE
    /\ \E tag \in {"empty", "found"} : current_meeting_info = ProbeInfo(tag)
    /\ app_status \in {"Starting", "Logged in - Waiting for meetings"}
    /\ \E before \in WriteOutcomes :
        status_file = WriteStatusFile(<<>>, StatusRecord(app_status, current_meeting_info),
                                      before)
    /\ clock = 0
    /\ start_time = 0
    /\ step_results = <<>>
    /\ join_result = FALSE
    /\ exc = ""
    /\ status_trace = <<>>
    /\ ssl_streak = 0
    /\ err_streak = 0
    /\ main_shot = NoShot
    /\ mon_pc = "idle"
    /\ mon_handle = 0
    /\ mon_shot = ""
    /\ ThreadsStart
    /\ shutdown_trace = <<>>
    /\ sleep_left = 0
    /\ LogStart

\* update_app_status(status, meeting_info) with a write that ends as outcome says;
\* the except branch logs and the function returns None
ProbeStatus ==
    /\ pc = "probe_status"
    /\ LET status == probe_feed[1]
           info == ProbeInfo(probe_feed[2])
           kept == IF TruthyDict(info) THEN info ELSE current_meeting_info
       IN  /\ app_status' = status
           /\ current_meeting_info' = kept
           /\ status_file' = WriteStatusFile(status_file, StatusRecord(status, kept),
                                             probe_feed[3])
    /\ probe_out' = <<"returned", NoneVal>>
    /\ pc' = "status_done"
    /\ UNCHANGED <<running, config_vars, json_token, active_sessions, driver_vars, attempt,
                   counter_vars, poll_vars, current_meeting_active, clock,
                   start_time, join_vars, exc, status_trace, streak_vars, probe_feed,
                   monitor_vars, thread_vars, shutdown_trace, sleep_left, log_vars>>
    /\ main_shot' = NoShot

NextStatus == ProbeStatus

SpecStatus == InitStatus /\ [][NextStatus]_vars

(***************************************************************************)
(* fetch_meetings on its own: a feed list of any content is given to it   *)
(* as the "ref" of a 200 response with a JSON object body.                *)
(***************************************************************************)
InitFeed ==
    /\ pc = "probe"
    /\ probe_feed \in SeqsUpTo(FeedEntries, MaxFeed)
    /\ probe_out = <<>>
    /\ running = TRUE
    /\ config = "valid"
    /\ refresh_time = RefreshOf(config)
    /\ network_used = FALSE
    /\ json_token = "cookie"
    /\ active_sessions = <<>>
    /\ driver = 0
    /\ live = {}
    /\ launched = 0
    /\ attempt = 0
    /\ consecutive_errors = 0
    /\ ssl_error_count = 0
    /\ response = NoResponse
    /\ mid = NoneVal
    /\ title = NoneVal
    /\ meeting_info = EmptyDict
    /\ current_meeting_active = FALSE
    /\ current_meeting_info = EmptyDict
    /\ app_status = "Starting"
    /\ status_file = <<>>
    /\ clock = 0
    /\ start_time = 0
    /\ step_results = <<>>
    /\ join_result = FALSE
    /\ exc = ""
    /\ status_trace = <<>>
    /\ ssl_streak = 0
    /\ err_streak = 0
    /\ main_shot = NoShot
    /\ mon_pc = "idle"
    /\ mon_handle = 0
    /\ mon_shot = ""
    /\ ThreadsStart
    /\ shutdown_trace = <<>>
    /\ sleep_left = 0
    /\ LogStart

\* result = fetch_meetings(json_token) for the feed probe_feed
ProbeFetch ==
    /\ pc = "probe"
    /\ probe_out' = fetch_meetings(HttpResponse(200, "json", probe_feed))
    /\ pc' = "probed"
    /\ UNCHANGED <<running, config_vars, json_token, active_sessions, driver_vars, attempt,
                   counter_vars, poll_vars, current_meeting_active, status_vars, clock,
                   start_time, join_vars, exc, status_trace, streak_vars, probe_feed,
                   monitor_vars, thread_vars, shutdown_trace, sleep_left, log_vars>>
    /\ main_shot' = NoShot

NextFeed == ProbeFetch

SpecFeed == InitFeed /\ [][NextFeed]_vars

(***************************************************************************)
(* The poll of main() over a feed that stays as it is: fetch_meetings,     *)
(* the test for a new meeting, the join with its append to                 *)
(* active_sessions, and the sleep before the next poll.                    *)
(***************************************************************************)
\* result = fetch_meetings(json_token); if mid and title and mid not in active_sessions
PollFeed ==
    /\ pc = "probe"
    /\ LET result == fetch_meetings(HttpResponse(200, "json", probe_feed))
       IN  /\ probe_out' = result
           /\ mid' = result[1]
           /\ title' = result[2]
           /\ pc' = IF IsNewMeeting(result[1], result[2], active_sessions)
                    THEN "probe_join" ELSE "probe_sleep"
    /\ UNCHANGED <<running, config_vars, json_token, active_sessions, driver_vars, attempt,
                   counter_vars, response, meeting_info, current_meeting_active,
                   status_vars, clock, start_time, join_vars, exc, status_trace,
                   streak_vars, probe_feed, monitor_vars, thread_vars, shutdown_trace, sleep_left, log_vars>>
    /\ main_shot' = NoShot

\* the look-ups and connect2class for the meeting found, which succeed or not
JoinPolled ==
    /\ pc = "probe_join"
    /\ \E joined \in BOOLEAN :
        /\ join_result' = joined
        /\ active_sessions' = SessionsAfterJoin(active_sessions, mid, joined)
    /\ pc' = "probe_sleep"
    /\ UNCHANGED <<running, config_vars, json_token, driver_vars, attempt, counter_vars,
                   poll_vars, current_meeting_active, status_vars, clock, start_time,
                   step_results, exc, status_trace, streak_vars, probe_vars,
                   monitor_vars, thread_vars, shutdown_trace, sleep_left, log_vars>>
    /\ main_shot' = NoShot

\* time.sleep(config["refresh_time"]), then the next iteration
SleepPolled ==
    /\ pc = "probe_sleep"
    /\ pc' = "probe"
    /\ mid' = NoneVal
    /\ title' = NoneVal
    /\ join_result' = FALSE
    /\ probe_out' = <<>>
    /\ UNCHANGED <<running, config_vars, json_token, active_sessions, driver_vars, attempt,
                   counter_vars, response, meeting_info, current_meeting_active,
                   status_vars, clock, start_time, step_results, exc, status_trace,
                   streak_vars, probe_feed, monitor_vars, thread_vars, shutdown_trace, sleep_left, log_vars>>
    /\ main_shot' = NoShot

NextPolls ==
    \/ PollFeed
    \/ JoinPolled
    \/ SleepPolled

SpecPolls == InitFeed /\ [][NextPolls]_vars

(***************************************************************************)
(* fetch_meetings on its own, for every reply of session.post: the feed   *)
(* probe_feed as a 200 JSON object, the other bodies and status codes,    *)
(* and the exceptions.                                                     *)
(***************************************************************************)
InitReply ==
    /\ InitFeed
    /\ Len(probe_feed) <= MaxReplyFeed

\* result = fetch_meetings(json_token) for one reply; response keeps the reply
ProbeReply ==
    /\ pc = "probe"
    /\ \E r \in ResponsesWith({probe_feed}) :
        /\ response' = Digest(r)
        /\ probe_out' = fetch_meetings(r)
    /\ pc' = "classified"
    /\ UNCHANGED <<running, config_vars, json_token, active_sessions, driver_vars, attempt,
                   counter_vars, mid, title, meeting_info, current_meeting_active,
                   status_vars, clock, start_time, join_vars, exc, status_trace,
                   streak_vars, probe_feed,
                   monitor_vars, thread_vars, shutdown_trace, sleep_left, log_vars>>
    /\ main_shot' = NoShot

NextReply == ProbeReply

SpecReply == InitReply /\ [][NextReply]_vars

(***************************************************************************)
(* Properties.                                                             *)
(***************************************************************************)
\* main() is inside connect2class, or has its result in hand
JoinPcs == {"connect", "clicking", "join_returned"}

NoDuplicates(s) == \A i, j \in 1..Len(s) : s[i] = s[j] => i = j

\* C1: an id that is in active_sessions is never given to connect2class again,
\* also when later polls report it as started.
C1_NoRejoin == pc \in JoinPcs => mid \notin Range(active_sessions)

\* a poll reported a started meeting that is in active_sessions, and the loop went on
\* to its sleep without joining it
C1_Witness ==
    /\ pc = "sleep_refresh"
    /\ Truthy(mid) /\ Truthy(title)
    /\ mid \in Range(active_sessions)

\* C2: active_sessions only grows: no step removes an id, an id is added only by the
\* step that follows a successful connect2class for that id, and no id is held twice.
C2_OnlyGrows ==
    [][/\ \/ active_sessions' = active_sessions
          \/ /\ pc = "join_returned"
             /\ join_result
             /\ active_sessions' = Append(active_sessions, mid)
       /\ NoDuplicates(active_sessions')]_vars

\* two meetings were joined and the driver is being restarted after errors
C2_Witness == pc = "relaunch" /\ Len(active_sessions) = 2

\* C3: when every click step succeeds the descriptor's status is found, then
\* connecting, then connected, and the id is in active_sessions once the hold begins.
C3_StatusProgress ==
    /\ (pc = "join_returned" /\ step_results = <<"clicked", "clicked", "clicked", "clicked">>)
        => /\ status_trace = <<"found", "connecting", "connected">>
           /\ current_meeting_info.status = "connected"
    /\ pc = "hold"
        => /\ mid \in Range(active_sessions)
           /\ current_meeting_info.id = mid
           /\ current_meeting_info.status = "connected"

\* m1 was joined with every step clicked
C3_Witness ==
    /\ pc = "join_returned"
    /\ mid = "m1"
    /\ step_results = <<"clicked", "clicked", "clicked", "clicked">>
    /\ join_result

\* C4: after a successful join the hold lasts 300 seconds, the remaining time is
\* written to the status record every 30 seconds, and the loop then goes on to the
\* sleep before its next poll.
C4_Hold ==
    [][/\ (pc = "hold" /\ pc' = "hold")
            => /\ clock' - clock <= 30
               /\ clock' - start_time <= 300
               /\ status_file'.status = "Connected to meeting"
               /\ status_file'.meeting_info.connection_remaining = 300 - (clock' - start_time)
       /\ (pc = "hold" /\ pc' # "hold" /\ running')
            => /\ clock - start_time = 300
               /\ pc' = "sleep_refresh"
       /\ (pc = "join_returned" /\ pc' = "hold") => start_time' = clock']_vars

\* a hold ran to its end
C4_Witness ==
    /\ pc = "sleep_refresh"
    /\ app_status = "Meeting session completed"
    /\ active_sessions # <<>>

\* C5 as stated: the fifth loop iteration in a row that ends in the exception handler
\* has the driver torn down for a restart.
C5_FifthErrorInARow ==
    [][(pc = "error" /\ err_streak = 4 /\ err_streak' = 5) => pc' = "restart_pause"]_vars

\* C5: when consecutive_errors reaches 5 the driver is torn down, the loop waits 30 s
\* and launches once; the counter is 0 right after a successful launch, and nothing
\* else starts a restart.
C5_RestartAtFive ==
    [][/\ (pc = "error" /\ consecutive_errors' = 5)
            => /\ pc' = "restart_pause"
               /\ app_status' = "Restarting driver due to errors"
               /\ driver = 0 \/ live' = live \/ live' = live \ {driver}
               /\ launched' = launched
       /\ (pc # "restart_pause" /\ pc' = "restart_pause")
            => /\ pc = "error"
               /\ consecutive_errors' = 5
       /\ (pc = "restart_pause" /\ running')
            => /\ pc' = "relaunch"
               /\ clock' = clock + 30
               /\ launched' = launched
       /\ (pc = "relaunch" /\ running')
            => /\ launched' <= launched + 1
               /\ pc' \in {"fetch", "finally"}
               /\ pc' = "fetch" => (consecutive_errors' = 0 /\ driver' = launched + 1
                                    /\ driver' \in live')]_vars

\* the driver came back after a restart: the counter is 0 and the loop polls again
C5_Witness ==
    /\ pc = "fetch"
    /\ app_status = "Restarting driver due to errors"
    /\ consecutive_errors = 0
    /\ driver # 0

\* C6 as stated: the third SSL_ERROR result of fetch_meetings in a row is followed by a
\* pause of 30 s or more before login is called.
C6_ThirdSslInARow ==
    [][(pc = "fetch" /\ pc' = "ssl_relogin" /\ ssl_streak' = 3) => clock' >= 30]_vars

\* C6: when ssl_error_count reaches 3 the loop waits 30 s or more before login is
\* called, and a successful login after an SSL error sets ssl_error_count to 0.
C6_PauseAtThree ==
    [][/\ (pc = "fetch" /\ pc' = "ssl_relogin" /\ ssl_error_count' >= 3) => clock' >= 30
       /\ (pc = "ssl_relogin" /\ pc' = "fetch" /\ Truthy(json_token'))
            => ssl_error_count' = 0]_vars

\* the counter reached 3 and the loop waited before the login
C6_Witness ==
    /\ pc = "ssl_relogin"
    /\ ssl_error_count = 3
    /\ clock = 30

\* C7: a 401 or 403 reply makes fetch_meetings return TOKEN_EXPIRED and main call
\* login; when login succeeds the loop polls again, at once and with the token login
\* returned, and consecutive_errors was not incremented on the way.
C7_TokenExpired ==
    [][/\ (pc = "fetch" /\ pc' # "fetch" /\ response'.kind = "http"
           /\ response'.code \in {401, 403})
            => /\ mid' = "TOKEN_EXPIRED"
               /\ pc' = "relogin"
               /\ consecutive_errors' = consecutive_errors
       /\ (pc = "relogin" /\ running')
            => /\ pc' = "fetch"
               /\ json_token' \in {login(o) : o \in LoginOutcomes}
               /\ Truthy(json_token')
                    => (consecutive_errors' <= consecutive_errors /\ clock' = clock)]_vars

\* a 403 reply after earlier errors: main is about to call login
C7_Witness ==
    /\ pc = "relogin"
    /\ response.code = 403
    /\ mid = "TOKEN_EXPIRED"
    /\ consecutive_errors > 0

C9_JoinResult ==
    [][pc = "join_returned"
        => /\ join_result <=> /\ Len(step_results) = 4
                              /\ \A k \in 1..4 : step_results[k] # "raised"
           /\ running' => (mid \in Range(active_sessions') <=> join_result)]_vars

\* none of the four steps clicked and connect2class returned True
C9_Witness ==
    /\ pc = "join_returned"
    /\ join_result
    /\ Len(step_results) = 4
    /\ \A k \in 1..4 : step_results[k] \in {"timeout", "webdriver_error"}

\* C10: fetch_meetings returns the entry of lowest index whose status is "started",
\* and the none-found triple when the feed has no such entry.
C10_FirstStarted ==
    pc = "probed" =>
        LET started == {k \in 1..Len(probe_feed) : probe_feed[k].status = "started"}
        IN  IF started = {}
            THEN probe_out = <<NoneVal, NoneVal, EmptyDict>>
            ELSE \E k \in started :
                    /\ \A j \in started : k <= j
                    /\ probe_out[1] = probe_feed[k].id
                    /\ probe_out[2] = probe_feed[k].title
                    /\ probe_out[3].id = probe_feed[k].id
                    /\ probe_out[3].title = probe_feed[k].title

\* two started entries with different ids behind an ended one: the first of the two
C10_Witness ==
    /\ pc = "probed"
    /\ Len(probe_feed) = 3
    /\ probe_feed[1].status = "ended"
    /\ probe_feed[2].status = "started"
    /\ probe_feed[3].status = "started"
    /\ probe_feed[2].id = "m1"
    /\ probe_feed[3].id = "m2"
    /\ probe_out[1] = "m1"

\* C11: fetch_meetings gives every reply exactly one outcome: TOKEN_EXPIRED for 401,
\* 403 and for a 200 with an empty or non-JSON body, SSL_ERROR for an SSL or
\* certificate failure of the transport, the first started meeting or none-found for
\* a 200 JSON feed, and none-found for every other status and exception.
C11_Classify ==
    pc = "classified" =>
        LET started == {k \in 1..Len(probe_feed) : probe_feed[k].status = "started"}
            first == CHOOSE k \in started : \A j \in started : k <= j
        IN  CASE response.kind = "http" /\ response.code \in {401, 403}
                    -> probe_out = <<"TOKEN_EXPIRED", NoneVal>>
              [] response.kind = "http" /\ response.code = 200
                 /\ response.body \in {"empty", "nonjson", "badjson"}
                    -> probe_out = <<"TOKEN_EXPIRED", NoneVal>>
              [] response.kind = "SSLError"
                    -> probe_out = <<"SSL_ERROR", NoneVal>>
              [] response.kind = "Exception"
                 /\ response.text \in {"certificate verify failed", "SSL handshake"}
                    -> probe_out = <<"SSL_ERROR", NoneVal>>
              [] response.kind = "http" /\ response.code = 200 /\ response.body = "json"
                 /\ started # {}
                    -> /\ probe_out[1] = probe_feed[first].id
                       /\ probe_out[2] = probe_feed[first].title
                       /\ probe_out[3].id = probe_feed[first].id
              [] OTHER -> probe_out = <<NoneVal, NoneVal, EmptyDict>>

\* an exception that is no SSLError and names SSL in its text was classified
C11_Witness ==
    /\ pc = "classified"
    /\ response.kind = "Exception"
    /\ response.text = "SSL handshake"
    /\ probe_out[1] = "SSL_ERROR"

\* C12: take_screenshot on a driver that is absent or was quit returns None and does
\* not raise, whenever main() quits or replaces the browser relative to the monitor's
\* steps; the monitor goes back to waiting for its next cycle.
C12_ScreenshotSafe ==
    [][(mon_pc = "shoot" /\ mon_pc' # "shoot")
        => /\ mon_shot' \in {"None", "file"}
           /\ mon_handle \notin live => mon_shot' = "None"
           /\ mon_pc' = "idle"
           /\ pc' = pc]_vars

\* the browser was quit between the monitor's probe and its take_screenshot call,
\* which returned None
C12_Witness ==
    /\ mon_pc = "idle"
    /\ mon_shot = "None"
    /\ driver # 0
    /\ driver \notin live
    /\ pc = "restart_pause"

\* C13: in every state at most one browser instance is alive.
C13_OneBrowser == Cardinality(live) <= 1

\* C14: with a config input that is missing, not JSON, or lacks or mistypes a
\* required field, the process never attempts a request to the server.
C14_BadConfigStops == config # "valid" => ~network_used

\* C15: the start-up launch is attempted at most max_retries times, 10 s apart; the
\* first handle stops the retries and goes on to the login; after the last failure
\* the process has exited, with no login and no poll ever made.
C15_LaunchRetries ==
    [][/\ (pc = "launch" /\ running')
           => /\ attempt < max_retries
              /\ pc' \in {"initial_login", "launch", "exited"}
              /\ (pc' = "initial_login") <=> (driver' # 0)
              /\ pc' = "initial_login" => attempt' = attempt /\ clock' = clock
              /\ pc' = "launch" => /\ attempt' = attempt + 1
                                   /\ attempt' < max_retries
                                   /\ clock' = clock + launch_pause
              /\ pc' = "exited" => /\ attempt = max_retries - 1
                                   /\ app_status' = "Failed to initialize driver"
       /\ pc = "exited" => /\ pc' = "exited"
                           /\ ~network_used' /\ json_token' = ""]_vars

C15_Witness ==
    pc = "exited" /\ app_status = "Failed to initialize driver" /\ clock = 0 /\ driver = 0

\* C16: a failed initial login is fatal: main() goes to its finally block, which
\* tears the driver down, and the process ends; no poll of the feed is ever made.
C16_InitialLoginFatal ==
    [][/\ (pc = "initial_login" /\ network_used' /\ json_token' = "")
           => pc' = "finally" /\ app_status' = "Initial login failed"
       /\ pc = "finally"
           => /\ pc' = "done"
              /\ live' \in {live \ {driver}, live}
              /\ app_status' = "Application shutdown"
       /\ pc = "done" => pc' = "done"]_vars

C16_Witness ==
    /\ pc = "finally" /\ app_status = "Initial login failed"
    /\ json_token = "" /\ network_used /\ driver \in live

\* C17: whenever fetch_meetings is about to be called, json_token is a non-empty
\* token, also after a re-login that failed.
C17_TokenAtFetch == pc = "fetch" => json_token # ""

\* C18: the relaunch of the restart is made once; when it gives no handle the loop
\* is left for the finally block and the process ends: no retry of the launch, no
\* further poll and no join.
C18_RelaunchFatal ==
    [][/\ (pc = "relaunch" /\ running')
           => /\ pc' \in {"fetch", "finally"}
              /\ launched' \in {launched, launched + 1}
              /\ driver' = 0 => pc' = "finally" /\ app_status' = "Failed to restart driver"
       /\ pc \in {"finally", "done"}
           => /\ pc' = "done"
              /\ launched' = launched
              /\ active_sessions' = active_sessions]_vars

C18_Witness ==
    /\ pc = "finally" /\ app_status = "Failed to restart driver"
    /\ running /\ driver = 0 /\ json_token # ""

LookupPcs == {"fetch_meeting", "get_session_url", "get_session_token"}

\* C19: when one of the three look-ups for a new meeting fails, the loop pauses
\* 30 s and polls again: no join is made, the id is not added to active_sessions,
\* and so the id is still eligible at the later polls.
C19_LookupFailure ==
    [][(pc \in LookupPcs /\ running')
        => /\ active_sessions' = active_sessions
           /\ mid \notin Range(active_sessions')
           /\ ~current_meeting_active'
           /\ pc' = "get_session_url" => pc = "fetch_meeting"
           /\ pc' = "get_session_token" => pc = "get_session_url"
           /\ pc' = "connect" => pc = "get_session_token"
           /\ pc' \in LookupPcs \cup {"connect", "fetch", "error"}
           /\ pc' = "fetch" => /\ clock' = clock + resolve_fail_pause
                               /\ exc' = exc
                               /\ consecutive_errors' = 0]_vars

C19_Witness ==
    /\ pc = "fetch" /\ app_status = "Failed to get session token"
    /\ clock = resolve_fail_pause /\ active_sessions = <<>>
    /\ current_meeting_info # EmptyDict /\ current_meeting_info.status = "token_failed"

\* C20: when the join has returned failure, take_screenshot is called for
\* "connection_failed", active_sessions is unchanged, the meeting-active flag and
\* the current descriptor are cleared, and the loop goes on to its sleep and the
\* next poll, where the id is still outside active_sessions.
C20_JoinFailure ==
    [][(pc = "join_returned" /\ ~join_result /\ running')
        => /\ main_shot' \in {Shot("connection_failed", r) : r \in {"file", "None"}}
           /\ driver \notin live => main_shot'[2] = "None"
           /\ active_sessions' = active_sessions
           /\ mid \notin Range(active_sessions')
           /\ ~current_meeting_active'
           /\ current_meeting_info' = EmptyDict
           /\ app_status' = "Failed to connect to meeting"
           /\ pc' = "sleep_refresh"]_vars

C20_Witness ==
    /\ pc = "sleep_refresh" /\ app_status = "Failed to connect to meeting"
    /\ main_shot = Shot("connection_failed", "file")
    /\ active_sessions = <<>> /\ ~current_meeting_active
    /\ current_meeting_info = EmptyDict

\* C21: the loop never comes back to the poll without a wait since the poll
\* before, whatever that poll returned.
C21_WaitBetweenPolls ==
    [][(pc' = "fetch" /\ pc \notin {"fetch", "initial_login"}) => clock' > 0]_vars

\* the main thread keeps running: a statement it can execute is executed
SpecLive == Spec /\ WF_vars(Next)

StoppedPcs == {"finally", "done", "exited"}

\* C23: a shutdown signal in any state of the loop sets running to False for good,
\* tries to quit the browser, and the process ends; no poll and no join is started
\* after the signal.
C23_Shutdown ==
    /\ [][/\ ~running => ~running' /\ pc \in StoppedPcs /\ pc' \in StoppedPcs
          /\ (running /\ ~running')
              => /\ pc' \in StoppedPcs
                 /\ live' \in {live \ {driver}, live}
                 /\ app_status' = "Shutting down"
                 /\ active_sessions' = active_sessions]_vars
    /\ (~running ~> pc \in {"done", "exited"})

C23_Witness ==
    /\ ~running /\ pc = "done" /\ active_sessions # <<>> /\ driver \notin live

StartupPcs == {"load_config", "start", "launch", "initial_login"}

\* C24: once the loop polls, the process ends only by a shutdown signal or by a
\* relaunch that gave no driver; after every other failure the loop goes on and
\* comes to a later call of fetch_meetings.
C24_LoopGoesOn ==
    /\ [][(pc \notin StartupPcs \cup StoppedPcs /\ pc' \in StoppedPcs)
           => \/ running /\ ~running'
              \/ pc = "relaunch" /\ driver' = 0]_vars
    /\ (pc \notin StartupPcs \cup StoppedPcs ~> pc \in {"fetch"} \cup StoppedPcs)

C24_Witness ==
    /\ pc = "fetch" /\ running /\ json_token = ""
    /\ app_status = "Re-authentication failed" /\ clock = relogin_fail_pause

StatusFields == {"status", "timestamp", "meeting_info"}

\* C25: a write of the status file leaves one record with exactly the fields status,
\* timestamp and meeting_info in place of what the file held; a write that fails
\* leaves the file as it was or emptied, and update_app_status returns all the same.
C25_StatusWrite ==
    [][pc = "probe_status"
        => /\ probe_out' = <<"returned", NoneVal>>
           /\ app_status' = probe_feed[1]
           /\ probe_feed[3] = "written"
               => /\ DOMAIN status_file' = StatusFields
                  /\ status_file'.status = probe_feed[1]
                  /\ status_file'.meeting_info = current_meeting_info'
           /\ probe_feed[3] # "written"
               => status_file' = status_file \/ status_file' = PartialFile]_vars

C25_Witness ==
    /\ pc = "status_done" /\ probe_feed[3] = "written"
    /\ status_file = StatusRecord("Connected to meeting",
                                  WithStatus(Descriptor([id |-> "m2", title |-> NoneVal]),
                                             "connected"))
    /\ current_meeting_info = status_file.meeting_info

\* C26: the status file follows every change of the descriptor's status: whenever
\* main() holds a descriptor, the record in the file carries that descriptor's status.
C26_FileFollowsStatus ==
    (TruthyDict(current_meeting_info) /\ pc \notin StoppedPcs)
        => /\ status_file # <<>>
           /\ TruthyDict(status_file.meeting_info)
           /\ status_file.meeting_info.status = current_meeting_info.status

\* C27: when the loop goes back to polling after a hold, a failed join or a failed
\* look-up, main() holds no descriptor any more.
C27_Discarded ==
    [][(\/ pc \in LookupPcs /\ pc' = "fetch"
        \/ pc \in {"hold", "join_returned"} /\ pc' = "sleep_refresh")
        => current_meeting_info' = EmptyDict]_vars

\* a step in which one of the three daemon threads moved
MonitorStep ==
    \/ screenshot_thread' # screenshot_thread
    \/ meeting_screenshot_thread' # meeting_screenshot_thread
    \/ cleanup_thread' # cleanup_thread

\* C22: no step of the request watcher, the meeting timer or the periodic cleanup
\* changes the descriptor, the meeting-active flag, the driver reference or the
\* application status, writes the status file, or starts or ends a browser.
C22_MonitorsOnlyRead ==
    [][MonitorStep =>
         UNCHANGED <<current_meeting_info, current_meeting_active, driver, app_status,
                     status_file, live, launched>>]_vars

C22_Witness ==
    /\ screenshot_thread.out # NoShot
    /\ driver \in live
    /\ status_file # <<>>

\* C28: a check of the watcher that finds a request file deletes it, every request
\* it deletes is followed by a take_screenshot call tagged "manual_request", and no
\* such call is made without a deleted request.
C28_RequestServed ==
    [][/\ (screenshot_thread.pc = "check" /\ files'.requests # files.requests
               /\ files'.requests \subseteq files.requests)
            => screenshot_thread'.pc = "shoot"
       /\ (screenshot_thread.pc = "shoot" /\ screenshot_thread'.pc = "check")
            => screenshot_thread'.out # NoShot
       /\ (screenshot_thread'.out # NoShot /\ screenshot_thread.out = NoShot)
            => /\ screenshot_thread.pc = "shoot"
               /\ screenshot_thread'.out[1] = "manual_request"]_vars

\* C29: the timer counts a second of its wait only while the flag is set and no
\* shutdown was asked for, leaves the wait without a screenshot as soon as one of
\* the two fails, and goes on to its "meeting_15min_auto" screenshot only after
\* 900 seconds with the flag still set.
C29_TimerShot ==
    [][/\ (meeting_screenshot_thread.pc = "wait"
               /\ meeting_screenshot_thread' # meeting_screenshot_thread
               /\ meeting_screenshot_thread.i < 15 * 60)
            => IF running /\ current_meeting_active
               THEN /\ meeting_screenshot_thread'.pc = "wait"
                    /\ meeting_screenshot_thread'.i = meeting_screenshot_thread.i + 1
               ELSE /\ meeting_screenshot_thread'.pc = "idle"
                    /\ meeting_screenshot_thread'.out = NoShot
       /\ (meeting_screenshot_thread'.pc = "shoot" /\ meeting_screenshot_thread.pc # "shoot")
            => /\ meeting_screenshot_thread.i = 15 * 60
               /\ current_meeting_active
               /\ running
       /\ (meeting_screenshot_thread'.out # NoShot /\ meeting_screenshot_thread.out = NoShot)
            => /\ meeting_screenshot_thread.pc = "shoot"
               /\ meeting_screenshot_thread'.out[1] = "meeting_15min_auto"]_vars

C29_Witness ==
    /\ meeting_screenshot_thread.out # NoShot
    /\ meeting_screenshot_thread.pc = "idle"

\* C30: the first step of the cleanup thread empties every log file and removes
\* every screenshot file; a tick comes after 4320 ten-second checks, empties every
\* log file and removes exactly the screenshot files older than 12 hours; no other
\* step removes a screenshot file or empties a log file.
C30_Cleanup ==
    [][/\ (cleanup_thread.pc = "startup" /\ cleanup_thread'.pc # "startup")
            => /\ files'.logs = {}
               /\ files'.shots = {}
       /\ (cleanup_thread.pc = "wait" /\ cleanup_thread'.ticks # cleanup_thread.ticks)
            => /\ cleanup_thread.i * 10 = 12 * 3600
               /\ files'.logs = {}
               /\ files'.shots =
                    {ctime \in files.shots : CleanupNow - ctime <= 12 * 3600}
       /\ (cleanup_thread.pc # "startup" /\ cleanup_thread'.ticks = cleanup_thread.ticks)
            => /\ files.shots \subseteq files'.shots
               /\ files.logs \subseteq files'.logs]_vars

C30_Witness ==
    /\ cleanup_thread.ticks = 2
    /\ 43200 \in files.shots
    /\ 10 \notin files.shots

\* C32 as stated: after the n-th loop iteration in a row that ended in the exception
\* handler, short of a restart, the loop sleeps min(30 * n, 300) seconds.
C32_NthErrorInARow ==
    [][(pc = "error" /\ pc' = "fetch")
         => clock' = clock + Min(30 * err_streak', 300)]_vars

\* C32: the exception handler that does not start a restart sleeps
\* min(30 * n, 300) seconds, n being the consecutive-error counter it has just
\* raised by one, and the next poll follows that sleep.
C32_BackoffByCounter ==
    [][(pc = "error" /\ pc' # "restart_pause" /\ running')
         => /\ consecutive_errors' = consecutive_errors + 1
            /\ consecutive_errors' < 5
            /\ clock' = clock + Min(30 * consecutive_errors', 300)
            /\ pc' = "fetch"]_vars

\* the third counted error has been slept off: 90 seconds
C32_Witness ==
    /\ pc = "fetch"
    /\ consecutive_errors = 3
    /\ clock >= 90
    /\ app_status = "Error in main loop: 'str' object cannot be interpreted as an integer"

\* C34: the consecutive-error counter is always in 0..5 and at most 4 when
\* fetch_meetings is called, and every backoff sleep is 30, 60, 90 or 120 seconds, so
\* the cap of 300 seconds is never what min() returns.
C34_CounterRange ==
    /\ [](/\ consecutive_errors \in 0..5
          /\ pc = "fetch" => consecutive_errors <= 4)
    /\ [][(pc = "error" /\ pc' = "fetch")
            => /\ clock' - clock \in {30, 60, 90, 120}
               /\ clock' - clock < 300]_vars

\* the fourth counted error has been slept off and the loop polls again
C34_Witness ==
    /\ pc = "fetch"
    /\ consecutive_errors = 4
    /\ clock >= 120

\* C35: the else branch of the poll (no meeting, or one already joined) changes
\* neither counter; consecutive_errors goes back to 0 only by a successful re-login,
\* a new meeting or a successful relaunch, and ssl_error_count only by a successful
\* re-login or a new meeting.
C35_CountersKept ==
    [][/\ (pc = "fetch" /\ pc' = "sleep_refresh")
            => UNCHANGED <<consecutive_errors, ssl_error_count>>
       /\ (consecutive_errors # 0 /\ consecutive_errors' = 0 /\ pc' \notin StoppedPcs)
            => \/ pc \in {"relogin", "ssl_relogin"} /\ json_token' # ""
               \/ pc = "fetch" /\ pc' = "fetch_meeting"
               \/ pc = "relaunch" /\ driver' \in live'
       /\ (ssl_error_count # 0 /\ ssl_error_count' = 0 /\ pc' \notin StoppedPcs)
            => \/ pc \in {"relogin", "ssl_relogin"} /\ json_token' # ""
               \/ pc = "fetch" /\ pc' = "fetch_meeting"]_vars

\* an empty poll has just been handled with four errors and an SSL error counted
C35_Witness ==
    /\ pc = "sleep_refresh"
    /\ consecutive_errors = 4
    /\ ssl_error_count > 0

\* C37: whenever fetch_meetings is about to be called with a positive SSL-error
\* counter the stored token is empty, and the 30-second SSL pause is taken only with
\* an empty stored token, that is after re-logins that all failed.
C37_SslCountMeansNoToken ==
    /\ []((pc = "fetch" /\ ssl_error_count > 0) => json_token = "")
    /\ [][(pc = "fetch" /\ pc' = "ssl_relogin" /\ ssl_error_count' >= 3)
            => (json_token = "" /\ clock' = 30)]_vars

\* two SSL errors are counted, both re-logins failed, and the loop polls again
C37_Witness ==
    /\ pc = "fetch"
    /\ ssl_error_count = 2
    /\ json_token = ""
    /\ running

\* the events of a shutdown by signal, in the order of C39
ShutdownOrder ==
    <<"Shutting down", "quit", "Driver cleanup", "quit", "Application shutdown">>

FirstStarted(feed) ==
    LET started == {k \in 1..Len(feed) : feed[k].status = "started"}
    IN  IF started = {} THEN 0 ELSE CHOOSE k \in started : \A j \in started : k <= j

\* the first started entry of the feed is a meeting that was joined
EarlierJoined ==
    /\ FirstStarted(probe_feed) # 0
    /\ probe_feed[FirstStarted(probe_feed)].id \in Range(active_sessions)

\* C36: while the first started entry of the feed is a meeting already joined, a poll
\* goes to the sleep and joins nothing, so no started meeting listed after it is ever
\* added to active_sessions.
C36_SecondNeverJoined ==
    [][/\ (pc = "probe" /\ EarlierJoined) => pc' = "probe_sleep"
       /\ EarlierJoined => active_sessions' = active_sessions]_vars

\* m1 was joined, m2 is started and listed after it, and the poll went to the sleep
C36_Witness ==
    /\ pc = "probe_sleep"
    /\ active_sessions = <<"m1">>
    /\ join_result = FALSE
    /\ Len(probe_feed) >= 2
    /\ probe_feed[1] = [id |-> "m1", title |-> "Maths", status |-> "started"]
    /\ probe_feed[2] = [id |-> "m2", title |-> "Maths", status |-> "started"]

\* C33: the hold of main() and the wait of the meeting screenshot timer both look at
\* running about once a second: two checks of the hold are at most a second apart,
\* a check of the timer is followed by one second of sleep, and a wait that finds
\* running false ends at once.
C33_OneSecondChecks ==
    [][/\ (pc = "hold" /\ pc' = "hold") => clock' - clock <= 1
       /\ (pc = "hold" /\ ~running) => pc' # "hold"
       /\ (meeting_screenshot_thread.pc = "wait"
               /\ meeting_screenshot_thread' # meeting_screenshot_thread)
            => IF running
               THEN meeting_screenshot_thread'.i <= meeting_screenshot_thread.i + 1
               ELSE meeting_screenshot_thread'.pc # "wait"]_vars

IsPrefix(s, t) == Len(s) <= Len(t) /\ SubSeq(t, 1, Len(s)) = s

\* C31 as stated: no step removes or overwrites what the log file holds, whatever
\* the order of the cleanup and the logging steps.
C31_AppendOnly ==
    [][IsPrefix(log_file.content, log_file'.content)]_vars

\* C31: a step either leaves every character of the log file in place and adds at
\* its end only, or it is the cleanup that empties the file.
C31_AppendOnlyBetweenCleanups ==
    [][\/ IsPrefix(log_file.content, log_file'.content)
       \/ log_file'.content = <<>>]_vars

\* the file was cleared after two records, and the third was appended to the empty file
C31_Witness ==
    /\ log_file.written = 3
    /\ log_file.content = LogLine(3)

\* C40: when get_new_logs_since_position returns, the stored offset is not past the
\* end of the file, every line in the file has been handed to the client, and the
\* client has been handed written lines only, each once and in the order of writing.
C40_TailDeliversAll ==
    [][(log_monitor.pc = "idle" /\ log_monitor'.pc = "returned") =>
        LET Handed == log_monitor'.received \o log_monitor'.new_logs
        IN  /\ log_monitor'.last_position <= Len(log_file'.content)
            /\ \A line \in Range(StrippedLines(split(log_file'.content))) :
                   line \in Range(Handed)
            /\ \A k \in 1..Len(Handed) : Handed[k] = LineText(Len(Handed[k]))
            /\ \A k, l \in 1..Len(Handed) : k < l => Len(Handed[k]) < Len(Handed[l])]_vars

====
